---------------------------- MODULE Spec2Model ----------------------------
(***************************************************************************)
(* Model of the retrieval core of the RFP response generator:              *)
(*   - FAISSStore (src/src/vector_store/vector_store.py): add_texts,       *)
(*     similarity_search, save, load;                                      *)
(*   - RAGPipeline (src/src/app/rag_pipeline.py): retrieve_context,        *)
(*     generate_answer, ask.                                               *)
(*                                                                         *)
(* Python objects that are mutated in place (the faiss index, the          *)
(* document_map dict) live in `heap` and are held by reference, so that    *)
(* aliasing between two stores is expressible.  Files of the snapshot      *)
(* directory hold serialised values.                                       *)
(***************************************************************************)
EXTENDS Integers, Sequences, FiniteSets, TLC

(***************************************************************************)
(* Bounds of the model.                                                    *)
(***************************************************************************)
MaxDocs == 2        \* a store is not grown past this many documents / vectors
MaxBatch == 2       \* longest texts / embeddings list passed to add_texts
MaxK == 3           \* largest k passed to similarity_search

(***************************************************************************)
(* Program constants.                                                      *)
(***************************************************************************)
TestDimension == 3        \* FAISSStore(dimension=3) of the store's own test
DefaultDimension == 1536  \* default of FAISSStore.__init__, used by cls() in load

(***************************************************************************)
(* Input values.  embed_text is the embedding capability the callers use   *)
(* (embeddings = [embed_text(doc) for doc in documents]): a fixed function *)
(* of the text, here onto unit vectors of the store's test.  BadEmbedding  *)
(* has the wrong length.  All coordinates are small integers, which        *)
(* astype('float32') represents exactly.                                   *)
(***************************************************************************)
Texts == {"a", "b"}
embed_text(text) == IF text = "a" THEN <<1, 0, 0>> ELSE <<0, 1, 0>>
BadEmbedding == <<1, 0>>
Queries == {<<1, 0, 0>>, <<0, 1, 0>>, <<1, 1, 0>>, <<0, 0, 1>>}

Handles == {1, 2}         \* 1: the store built by FAISSStore(), 2: the store returned by load
Refs == 1..4              \* addresses of index and dict objects

NoStore == [kind |-> "none"]
NoFile == [kind |-> "absent"]
Truncated == [kind |-> "truncated"]  \* a file opened "wb" and not written
Free == [kind |-> "free"]
NoOp == [name |-> "init"]
NoAsk == [kind |-> "none"]
NoBatch == [kind |-> "none"]
NoCall == [fn |-> "none"]

VARIABLES
    store,      \* handle -> NoStore or the FAISSStore object's attributes
    heap,       \* ref -> Free, an index object [d, xb] or a dict (function id -> text)
    disk,       \* the snapshot directory: [index, docstore], each NoFile or file content
    saved,      \* value of the saving store at the last completed save (history)
    saving,     \* handle of the store that is between the two writes of save, or 0
    op,         \* the last call and what it returned or raised
    pc,         \* where the pipeline's ask() stands
    ask,        \* the arguments and locals of the ask() in progress
    stages,     \* the stages the ask() in progress has gone through
    batch,      \* the process_requirements_batch call in progress
    call,       \* the last call of a function without state, and its result
    sessions,   \* api_server.sessions: session id -> session data
    temp_files, \* api_server.temp_files: session id -> path of the uploaded file
    temp_uploads, \* the files that exist in temp_uploads/
    issued,     \* the session ids uuid4 has given out (history)
    deleted,    \* the session ids whose DELETE has succeeded (history)
    http,       \* the last HTTP request and the status it was answered with
    runs        \* the add_to_vector_store calls of the writer processes, and their log

storeVars == <<store, heap, disk, saved, saving, op>>
askVars == <<pc, ask, stages>>
apiVars == <<sessions, temp_files, temp_uploads, issued, deleted, http>>
appVars == <<batch, call, apiVars, runs>>
vars == <<storeVars, askVars, appVars>>


(***************************************************************************)
(* Generic helpers.                                                        *)
(***************************************************************************)
SeqsUpTo(S, n) == UNION {[1..m -> S] : m \in 0..n}

RECURSIVE SumSq(_, _, _)
SumSq(x, y, i) ==
    IF i = 0 THEN 0 ELSE (x[i] - y[i]) * (x[i] - y[i]) + SumSq(x, y, i - 1)

RECURSIVE Flatten(_)
Flatten(rows) == IF rows = <<>> THEN <<>> ELSE Head(rows) \o Flatten(Tail(rows))

(***************************************************************************)
(* Python dict: a function on its key set, wrapped in a record.            *)
(***************************************************************************)
EmptyDict == [kind |-> "dict", items |-> [i \in {} |-> "a"]]
Keys(dict) == DOMAIN dict.items

\* for doc_id, text in zip(doc_ids, texts): self.document_map[doc_id] = text
DictUpdate(dict, doc_ids, texts) ==
    LET n == IF Len(doc_ids) < Len(texts) THEN Len(doc_ids) ELSE Len(texts)
        new == {doc_ids[i] : i \in 1..n}
        last(id) == CHOOSE i \in 1..n :
                        doc_ids[i] = id /\ \A j \in 1..n : doc_ids[j] = id => j <= i
    IN  [kind |-> "dict",
         items |-> [id \in Keys(dict) \cup new |->
                        IF id \in new THEN texts[last(id)] ELSE dict.items[id]]]

(***************************************************************************)
(* faiss.IndexFlatL2: vectors kept in insertion order, label = position.   *)
(***************************************************************************)
IndexFlatL2(dimension) == [kind |-> "index", d |-> dimension, xb |-> <<>>]
ntotal(index) == Len(index.xb)

\* squared Euclidean distance, as IndexFlatL2 reports it
L2sqr(x, y) == SumSq(x, y, Len(x))

\* The result heap of the exhaustive scan is ordered by (distance, label):
\* of two vectors at equal distance the one added first comes first.
Closer(index, q, i, j) ==
    LET di == L2sqr(index.xb[i], q)
        dj == L2sqr(index.xb[j], q)
    IN  di < dj \/ (di = dj /\ i < j)

NoHit == [label |-> -1, distance |-> -1]

\* distances, indices = self.index.search(query_array, k): k slots, the
\* nearest first, label -1 in the slots the index cannot fill
index_search(index, q, k) ==
    LET n == ntotal(index)
        rank(i) == Cardinality({j \in 1..n : Closer(index, q, j, i)})
    IN  [r \in 1..k |->
            IF r <= n
            THEN LET i == CHOOSE i \in 1..n : rank(i) = r - 1
                 IN  [label |-> i - 1, distance |-> L2sqr(index.xb[i], q)]
            ELSE NoHit]

(***************************************************************************)
(* FAISSStore.__init__                                                     *)
(***************************************************************************)
FAISSStore(dimension, iref, dref) ==
    [kind |-> "store", dimension |-> dimension, index |-> iref,
     document_map |-> dref, current_id |-> 0]

(***************************************************************************)
(* FAISSStore.add_texts on the object `self`, whose index and dict objects *)
(* are `index` and `dict`.  Gives the call's outcome and the objects after *)
(* it.                                                                     *)
(***************************************************************************)
Outcome(raised, exc, ret, self, index, dict) ==
    [raised |-> raised, exc |-> exc, ret |-> ret,
     self |-> self, index |-> index, dict |-> dict]

\* np.array(embeddings) of rows of unequal length is no 2-d float array
IsRagged(embeddings) ==
    \E i, j \in 1..Len(embeddings) : Len(embeddings[i]) # Len(embeddings[j])

\* add_texts as it would be if the id map and counter were written before
\* the index rejects the vectors
add_texts_map_first(self, index, dict, texts, embeddings) ==
    IF texts = <<>> \/ embeddings = <<>>
    THEN Outcome(FALSE, "", <<>>, self, index, dict)
    ELSE LET doc_ids == [i \in 1..Len(texts) |-> self.current_id + i - 1]
             dict2 == DictUpdate(dict, doc_ids, texts)
             self2 == [self EXCEPT !.current_id = @ + Len(texts)]
         IN  IF IsRagged(embeddings)
             THEN Outcome(TRUE, "ValueError", <<>>, self2, index, dict2)
             ELSE IF Len(embeddings[1]) # index.d
             THEN Outcome(TRUE, "AssertionError", <<>>, self2, index, dict2)
             ELSE Outcome(FALSE, "", doc_ids, self2,
                          [index EXCEPT !.xb = @ \o embeddings], dict2)

\* add_texts as it would be if ids were handed out from 0 on every call
add_texts_ids_from_zero(self, index, dict, texts, embeddings) ==
    IF texts = <<>> \/ embeddings = <<>>
    THEN Outcome(FALSE, "", <<>>, self, index, dict)
    ELSE IF IsRagged(embeddings)
    THEN Outcome(TRUE, "ValueError", <<>>, self, index, dict)
    ELSE LET doc_ids == [i \in 1..Len(texts) |-> i - 1]
         IN  IF Len(embeddings[1]) # index.d
             THEN Outcome(TRUE, "AssertionError", <<>>, self, index, dict)
             ELSE Outcome(FALSE, "", doc_ids,
                          [self EXCEPT !.current_id = @ + Len(texts)],
                          [index EXCEPT !.xb = @ \o embeddings],
                          DictUpdate(dict, doc_ids, texts))

\* FAISSStore.add_texts(texts, embeddings)
add_texts(self, index, dict, texts, embeddings) ==
    IF texts = <<>> \/ embeddings = <<>>
    THEN Outcome(FALSE, "", <<>>, self, index, dict)
    ELSE IF IsRagged(embeddings)          \* np.array(...).astype('float32') raises
    THEN Outcome(TRUE, "ValueError", <<>>, self, index, dict)
    ELSE LET doc_ids == [i \in 1..Len(texts) |-> self.current_id + i - 1]
         IN  IF Len(embeddings[1]) # index.d      \* index.add asserts d == self.d
             THEN Outcome(TRUE, "AssertionError", <<>>, self, index, dict)
             ELSE Outcome(FALSE, "", doc_ids,
                          [self EXCEPT !.current_id = @ + Len(texts)],
                          [index EXCEPT !.xb = @ \o embeddings],
                          DictUpdate(dict, doc_ids, texts))

(***************************************************************************)
(* FAISSStore.similarity_search                                            *)
(***************************************************************************)
SearchOutcome(raised, exc, ret) == [raised |-> raised, exc |-> exc, ret |-> ret]

\* similarity_search over an index whose ties come out latest-added first
similarity_search_newest_first(index, dict, query_embedding, k) ==
    LET n == ntotal(index)
        closer(i, j) ==
            LET di == L2sqr(index.xb[i], query_embedding)
                dj == L2sqr(index.xb[j], query_embedding)
            IN  di < dj \/ (di = dj /\ i > j)
        rank(i) == Cardinality({j \in 1..n : closer(j, i)})
        m == IF k < n THEN k ELSE n
    IN  SearchOutcome(FALSE, "",
            [r \in 1..m |->
                LET i == CHOOSE i \in 1..n : rank(i) = r - 1
                IN  <<i - 1, dict.items[i - 1],
                      L2sqr(index.xb[i], query_embedding)>>])

\* similarity_search without the test `if idx != -1`
similarity_search_keeps_padding(index, dict, query_embedding, k) ==
    LET found == index_search(index, query_embedding, k)
    IN  IF \E r \in 1..k : found[r].label \notin Keys(dict)
        THEN SearchOutcome(TRUE, "KeyError", <<>>)
        ELSE SearchOutcome(FALSE, "",
                [r \in 1..k |-> <<found[r].label, dict.items[found[r].label],
                                  found[r].distance>>])

\* similarity_search with the test written `if idx:`
similarity_search_skips_label_zero(index, dict, query_embedding, k) ==
    LET found == index_search(index, query_embedding, k)
        hits == SelectSeq(found, LAMBDA f : f.label # -1 /\ f.label # 0)
    IN  IF \E r \in 1..Len(hits) : hits[r].label \notin Keys(dict)
        THEN SearchOutcome(TRUE, "KeyError", <<>>)
        ELSE SearchOutcome(FALSE, "",
                [r \in 1..Len(hits) |->
                    <<hits[r].label, dict.items[hits[r].label],
                      hits[r].distance>>])

\* FAISSStore.similarity_search(query_embedding, k)
similarity_search(index, dict, query_embedding, k) ==
    IF Len(query_embedding) # index.d          \* index.search asserts d == self.d
    THEN SearchOutcome(TRUE, "AssertionError", <<>>)
    ELSE LET found == index_search(index, query_embedding, k)
             hits == SelectSeq(found, LAMBDA f : f.label # -1)
         IN  IF \E r \in 1..Len(hits) : hits[r].label \notin Keys(dict)
             THEN SearchOutcome(TRUE, "KeyError", <<>>)
             ELSE SearchOutcome(FALSE, "",
                     [r \in 1..Len(hits) |->
                         <<hits[r].label, dict.items[hits[r].label],
                           hits[r].distance>>])

(***************************************************************************)
(* Snapshot files.  faiss.write_index stores the dimension, the vector     *)
(* count and the vectors as one flat array; pickle stores the dict as its  *)
(* items in insertion order (ascending id) next to current_id.             *)
(***************************************************************************)
write_index(index) ==
    [kind |-> "file", d |-> index.d, ntotal |-> ntotal(index),
     codes |-> Flatten(index.xb)]

read_index(file) ==
    [kind |-> "index", d |-> file.d,
     xb |-> [i \in 1..file.ntotal |->
                SubSeq(file.codes, (i - 1) * file.d + 1, i * file.d)]]

pickle_dump(dict, current_id) ==
    LET ks == Keys(dict)
        key(r) == CHOOSE k \in ks : Cardinality({j \in ks : j < k}) = r - 1
    IN  [kind |-> "file",
         document_map |-> [r \in 1..Cardinality(ks) |-> <<key(r), dict.items[key(r)]>>],
         current_id |-> current_id]

pickle_load(file) ==
    LET items == file.document_map
        ks == {items[r][1] : r \in 1..Len(items)}
    IN  [document_map |->
            [kind |-> "dict",
             items |-> [k \in ks |->
                          items[CHOOSE r \in 1..Len(items) : items[r][1] = k][2]]],
         current_id |-> file.current_id]

\* faiss.write_index(self.index, str(save_dir / "index.faiss"))
save_index(dir, index) == [dir EXCEPT !.index = write_index(index)]

\* pickle.dump({"document_map": ..., "current_id": ...}, f) into docstore.pkl
save_docstore(dir, dict, current_id) ==
    [dir EXCEPT !.docstore = pickle_dump(dict, current_id)]

(***************************************************************************)
(* FAISSStore.load: the new store object and its two new objects, or the   *)
(* exception of the file that cannot be read.                              *)
(***************************************************************************)
LoadOutcome(raised, exc, self, index, dict) ==
    [raised |-> raised, exc |-> exc, self |-> self, index |-> index, dict |-> dict]

\* load as it would be if document_map were not restored from docstore.pkl
load_without_map(dir, iref, dref) ==
    IF dir.index.kind = "absent"
    THEN LoadOutcome(TRUE, "RuntimeError", NoStore, Free, Free)
    ELSE IF dir.docstore.kind = "absent"
    THEN LoadOutcome(TRUE, "FileNotFoundError", NoStore, Free, Free)
    ELSE IF dir.docstore.kind = "truncated"
    THEN LoadOutcome(TRUE, "EOFError", NoStore, Free, Free)
    ELSE LoadOutcome(FALSE, "",
            [FAISSStore(DefaultDimension, iref, dref)
                EXCEPT !.current_id = pickle_load(dir.docstore).current_id],
            read_index(dir.index), EmptyDict)

\* FAISSStore.load(directory)
load(dir, iref, dref) ==
    IF dir.index.kind = "absent"                \* faiss.read_index raises
    THEN LoadOutcome(TRUE, "RuntimeError", NoStore, Free, Free)
    ELSE IF dir.docstore.kind = "absent"        \* open(..., "rb") raises
    THEN LoadOutcome(TRUE, "FileNotFoundError", NoStore, Free, Free)
    ELSE IF dir.docstore.kind = "truncated"     \* pickle.load raises
    THEN LoadOutcome(TRUE, "EOFError", NoStore, Free, Free)
    ELSE LET data == pickle_load(dir.docstore)
         IN  LoadOutcome(FALSE, "",
                [FAISSStore(DefaultDimension, iref, dref)
                    EXCEPT !.current_id = data.current_id],
                read_index(dir.index), data.document_map)

(***************************************************************************)
(* State.                                                                  *)
(***************************************************************************)
Live == {h \in Handles : store[h].kind = "store"}

IndexOf(h) == heap[store[h].index]
DictOf(h) == heap[store[h].document_map]

\* what a store holds, as a value
View(h) ==
    [kind |-> "view", d |-> IndexOf(h).d, xb |-> IndexOf(h).xb,
     items |-> DictOf(h).items, current_id |-> store[h].current_id]

\* allocation in which every store is handed the objects of the first one
\* (index and document_map as attributes of the class)
SharedRefs(h) == <<1, 2>>

\* the objects a new store gets: the two lowest addresses no other store uses
FreshRefs(h) ==
    LET used == UNION {{store[g].index, store[g].document_map} : g \in Live \ {h}}
        free == Refs \ used
        r1 == CHOOSE r \in free : \A x \in free : r <= x
        r2 == CHOOSE r \in free \ {r1} : \A x \in free \ {r1} : r <= x
    IN  <<r1, r2>>

\* nothing else has been called
\* sessions = {}, temp_files = {}, no request answered yet
EmptyTable == [i \in {} |-> 0]
NoReply == [endpoint |-> "none", session_id |-> 0, status |-> 0, data |-> <<>>]
\* the processes that write to the snapshot directory, and a process that
\* has not called add_to_vector_store yet
Writers == {1, 2}
IdleRun == [pc |-> "idle"]
NoRuns == [run |-> [p \in Writers |-> IdleRun], log |-> <<>>]

ApiInit ==
    /\ sessions = EmptyTable
    /\ temp_files = EmptyTable
    /\ temp_uploads = {}
    /\ issued = {}
    /\ deleted = {}
    /\ http = NoReply

AppInit == batch = NoBatch /\ call = NoCall /\ runs = NoRuns /\ ApiInit

StoreInit ==
    /\ store = [h \in Handles |->
                   IF h = 1 THEN FAISSStore(TestDimension, 1, 2) ELSE NoStore]
    /\ heap = [r \in Refs |->
                   IF r = 1 THEN IndexFlatL2(TestDimension)
                   ELSE IF r = 2 THEN EmptyDict ELSE Free]
    /\ disk = [index |-> NoFile, docstore |-> NoFile]
    /\ saved = [kind |-> "none"]
    /\ saving = 0
    /\ op = NoOp
    /\ pc = "idle"
    /\ ask = NoAsk
    /\ stages = <<>>
    /\ AppInit

(***************************************************************************)
(* Arguments of add_texts.  The callers of the repository (index_documents,*)
(* add_to_vector_store, the store's test) pass one embedding per text;     *)
(* AddUnpaired drops that.                                                 *)
(***************************************************************************)
TextLists == SeqsUpTo(Texts, MaxBatch)
EmbedAll(texts) == [i \in 1..Len(texts) |-> embed_text(texts[i])]

\* the embeddings of `texts`, and the same with the last one or all of them
\* of the wrong length
EmbeddingChoices(texts) ==
    LET e == EmbedAll(texts)
    IN  {e, [i \in 1..Len(e) |-> IF i = Len(e) THEN BadEmbedding ELSE e[i]],
            [i \in 1..Len(e) |-> BadEmbedding]}

\* one call store[h].add_texts(texts, embeddings)
AddTexts(h, texts, embeddings) ==
    /\ h \in Live
    /\ saving # h
    /\ LET r == add_texts(store[h], IndexOf(h), DictOf(h), texts, embeddings)
       IN  /\ r.self.current_id <= MaxDocs      \* the store is not grown further
           /\ ntotal(r.index) <= MaxDocs
           /\ store' = [store EXCEPT ![h] = r.self]
           /\ heap' = [heap EXCEPT ![store[h].index] = r.index,
                                   ![store[h].document_map] = r.dict]
           /\ op' = [name |-> "add_texts", h |-> h, raised |-> r.raised,
                     exc |-> r.exc, ret |-> r.ret]
    /\ UNCHANGED <<disk, saved, saving>>
    /\ UNCHANGED <<askVars, appVars>>

\* a call as the repository's callers make it: one embedding per text
AddPaired ==
    \E h \in Handles : \E texts \in TextLists :
        \E embeddings \in EmbeddingChoices(texts) :
            /\ Len(texts) = Len(embeddings)
            /\ AddTexts(h, texts, embeddings)

\* a call with lists of different lengths
AddUnpaired ==
    \E h \in Handles : \E texts \in TextLists : \E others \in TextLists :
        /\ Len(texts) # Len(others)
        /\ AddTexts(h, texts, EmbedAll(others))

\* one call store[h].similarity_search(q, k)
Search ==
    \E h \in Handles : \E q \in Queries : \E k \in 1..MaxK :
        /\ h \in Live
        /\ saving # h
        /\ LET r == similarity_search(IndexOf(h), DictOf(h), q, k)
           IN  op' = [name |-> "similarity_search", h |-> h, q |-> q, k |-> k,
                      raised |-> r.raised, exc |-> r.exc, ret |-> r.ret]
        /\ UNCHANGED <<store, heap, disk, saved, saving>>
        /\ UNCHANGED <<askVars, appVars>>

\* one call store[h].save(dir), both files written
Save ==
    \E h \in Handles :
        /\ h \in Live
        /\ saving = 0
        /\ disk' = save_docstore(save_index(disk, IndexOf(h)),
                                 DictOf(h), store[h].current_id)
        /\ saved' = View(h)
        /\ op' = [name |-> "save", h |-> h, raised |-> FALSE, exc |-> ""]
        /\ UNCHANGED <<store, heap, saving>>
        /\ UNCHANGED <<askVars, appVars>>

\* loaded_store = FAISSStore.load(dir): handle 2 names the store returned
Load ==
    LET h == 2
        refs == FreshRefs(h)
        r == load(disk, refs[1], refs[2])
    IN  /\ saving # h
        /\ op' = [name |-> "load", h |-> h, raised |-> r.raised, exc |-> r.exc]
        /\ IF r.raised
           THEN UNCHANGED <<store, heap>>
           ELSE /\ store' = [store EXCEPT ![h] = r.self]
                /\ heap' = [x \in Refs |->
                              IF x = refs[1] THEN r.index
                              ELSE IF x = refs[2] THEN r.dict
                              ELSE IF h \in Live /\ x \in {store[h].index,
                                                          store[h].document_map}
                                   THEN Free
                              ELSE heap[x]]
        /\ UNCHANGED <<disk, saved, saving>>
        /\ UNCHANGED <<askVars, appVars>>

(***************************************************************************)
(* save() step by step: index.faiss is written, then docstore.pkl.  The    *)
(* second write can fail (disk full, process stopped), before the file is  *)
(* opened or after open(..., "wb") has emptied it; another process can     *)
(* load between the two writes.                                            *)
(***************************************************************************)
SaveIndex ==
    \E h \in Handles :
        /\ h \in Live
        /\ saving = 0
        /\ disk' = save_index(disk, IndexOf(h))
        /\ saving' = h
        /\ op' = [name |-> "save_index", h |-> h, raised |-> FALSE, exc |-> ""]
        /\ UNCHANGED <<store, heap, saved>>
        /\ UNCHANGED <<askVars, appVars>>

SaveDocstore ==
    /\ saving # 0
    /\ disk' = save_docstore(disk, DictOf(saving), store[saving].current_id)
    /\ saved' = View(saving)
    /\ saving' = 0
    /\ op' = [name |-> "save", h |-> saving, raised |-> FALSE, exc |-> ""]
    /\ UNCHANGED <<store, heap>>
    /\ UNCHANGED <<askVars, appVars>>

SaveFails ==
    /\ saving # 0
    /\ \/ UNCHANGED disk
       \/ disk' = [disk EXCEPT !.docstore = Truncated]
    /\ saving' = 0
    /\ op' = [name |-> "save", h |-> saving, raised |-> TRUE, exc |-> "OSError"]
    /\ UNCHANGED <<store, heap, saved>>
    /\ UNCHANGED <<askVars, appVars>>

(***************************************************************************)
(* Spec: the life of a snapshot.  Stores are filled, saved and loaded.     *)
(***************************************************************************)
StoreNext == AddPaired \/ Save \/ Load

Spec == StoreInit /\ [][StoreNext]_vars

(***************************************************************************)
(* SpecSearch: a store is filled and queried.                              *)
(***************************************************************************)
SearchNext == AddPaired \/ Search

SpecSearch == StoreInit /\ [][SearchNext]_vars

(***************************************************************************)
(* SpecAnyArgs: add_texts is also called with lists of different lengths.  *)
(***************************************************************************)
AnyArgsNext == AddPaired \/ AddUnpaired \/ Search

SpecAnyArgs == StoreInit /\ [][AnyArgsNext]_vars

(***************************************************************************)
(* SpecInterrupt: save is not atomic.  One process fills and saves its     *)
(* store, any process loads.                                               *)
(***************************************************************************)
\* the saving process fills its store, one embedding per text
AddBySaver ==
    \E texts \in TextLists :
        /\ Len(texts) > 0
        /\ AddTexts(1, texts, EmbedAll(texts))

InterruptNext == AddBySaver \/ SaveIndex \/ SaveDocstore \/ SaveFails \/ Load

SpecInterrupt == StoreInit /\ [][InterruptNext]_vars

(***************************************************************************)
(* RAGPipeline.  Strings are sequences of tokens (words, labels, line      *)
(* breaks), enough to tell a prefix, a blank string and a removed phrase.  *)
(***************************************************************************)
QueryTexts == Texts
Whitespace == {" ", "\n", "\n\n"}
IsBlank(str) == \A i \in 1..Len(str) : str[i] \in Whitespace    \* not s.strip()
StartsWith(str, prefix) ==
    Len(str) >= Len(prefix) /\ SubSeq(str, 1, Len(prefix)) = prefix

RECURSIVE Strip(_)
Strip(str) ==
    IF str = <<>> THEN <<>>
    ELSE IF Head(str) \in Whitespace THEN Strip(Tail(str))
    ELSE IF str[Len(str)] \in Whitespace THEN Strip(SubSeq(str, 1, Len(str) - 1))
    ELSE str

\* "\n\n".join(texts)
RECURSIVE Join(_)
Join(texts) ==
    IF texts = <<>> THEN <<>>
    ELSE IF Len(texts) = 1 THEN <<texts[1]>>
    ELSE <<texts[1], "\n\n">> \o Join(Tail(texts))

\* the prompt of generate_answer: fixed instructions around context and query
Prompt(query, context) ==
    <<"You are a business professional", "Guidelines:", "Context:">> \o context
        \o <<"Question:", query, "Response:">>

\* what the POST to {ollama_url}/api/generate can come to
TransportFailures == {"ConnectionError", "Timeout"}   \* requests.post raises
HttpErrors == {"HTTPError"}                           \* raise_for_status raises on 4xx / 5xx
Malformed == {"NotJSON", "NotObject", "NoField"}      \* status 200, unusable body
Str(tokens) == [type |-> "str", text |-> tokens]
Null == [type |-> "null", text |-> <<>>]
Bodies ==
    {Str(<<"We", "provide", "support.">>),
     Str(<<"**Summary:**", "We", "provide", "support.", "\n">>),
     Str(<<"Error", "connecting", "to", "nothing">>),
     Str(<<>>),
     Null}
Replies ==
    [kind : TransportFailures \cup HttpErrors \cup Malformed, response : {Null}]
        \cup [kind : {"OK"}, response : Bodies]

\* subclasses of requests.exceptions.RequestException
RequestExceptions == {"ConnectionError", "Timeout", "HTTPError", "JSONDecodeError"}

\* lines 64-78: requests.post, raise_for_status, response.json()["response"]
PostOutcome(raised, exc, raw) == [raised |-> raised, exc |-> exc, raw |-> raw]

post_generate(reply) ==
    IF reply.kind \in TransportFailures THEN PostOutcome(TRUE, reply.kind, Null)
    ELSE IF reply.kind \in HttpErrors THEN PostOutcome(TRUE, "HTTPError", Null)
    ELSE IF reply.kind = "NotJSON" THEN PostOutcome(TRUE, "JSONDecodeError", Null)
    ELSE IF reply.kind = "NotObject" THEN PostOutcome(TRUE, "TypeError", Null)
    ELSE IF reply.kind = "NoField" THEN PostOutcome(TRUE, "KeyError", Null)
    ELSE PostOutcome(FALSE, "", reply.response)

\* the phrases _humanize_response deletes, as tokens
AiPhrases ==
    {"Thank you for your question.", "I hope this helps.", "**Summary:**",
     "Summary:", "Response:", "Answer:", "-"}

\* lines 87-125: phrases out, then line breaks collapsed, then trimmed
HumanizeOutcome(raised, exc, text) == [raised |-> raised, exc |-> exc, text |-> text]

humanize_response(response) ==
    IF response.type # "str"                    \* re.sub on a non-string
    THEN HumanizeOutcome(TRUE, "TypeError", <<>>)
    ELSE HumanizeOutcome(FALSE, "",
            Strip(SelectSeq(response.text, LAMBDA t : t \notin AiPhrases)))

ErrorPrefix == <<"Error", "connecting", "to">>
ErrorConnecting(exc) == ErrorPrefix \o <<"Ollama:", exc>>
InvalidResponse == <<"Error:", "Invalid", "response", "from", "Ollama">>

\* the except clauses of generate_answer: the answer an exception becomes,
\* if it is caught
Caught(answer) == [caught |-> TRUE, answer |-> answer]
NotCaught == [caught |-> FALSE, answer |-> <<>>]

\* except clauses that catch only the failures to reach the backend
except_clauses_transport_only(exc) ==
    IF exc \in TransportFailures THEN Caught(ErrorConnecting(exc))
    ELSE IF exc = "KeyError" THEN Caught(InvalidResponse)
    ELSE NotCaught

\* the except clauses as written
except_clauses(exc) ==
    IF exc \in RequestExceptions THEN Caught(ErrorConnecting(exc))   \* line 82
    ELSE IF exc = "KeyError" THEN Caught(InvalidResponse)            \* line 84
    ELSE NotCaught

(***************************************************************************)
(* RFPQualityScorer.  A text is given by what the scorer measures of it:   *)
(* lengths, word counts and the numbers of matches of its patterns.  The   *)
(* sub-scores of completeness, clarity and professionalism are whole       *)
(* numbers; relevance and the weighted sum are exact rationals [num, den]. *)
(* The fields of a QualityScore are in tenths of a point: round(x, 1) * 10.*)
(***************************************************************************)
MinOf(a, b) == IF a <= b THEN a ELSE b
MaxOf(a, b) == IF a >= b THEN a ELSE b

\* the requirement as measured: len(requirement.split()), the number of "?",
\* the distinct words that are no stop words, those of them longer than 6
Requirement(words, questions, terms, technical) ==
    [words |-> words, questions |-> questions, terms |-> terms,
     technical |-> technical]

\* np.mean of the sentence lengths: nan when no sentence holds a word
NaN == [nan |-> TRUE, mean |-> 0]
Mean(m) == [nan |-> FALSE, mean |-> m]

Rat(num, den) == [num |-> num, den |-> den]
AtLeast(x, k) == x.num >= k * x.den          \* x >= k
Below(x, k) == x.num < k * x.den             \* x < k

\* round(x, 1) in tenths, for x >= 0; a tie goes to the even tenth
Round1(x) ==
    LET q == (10 * x.num) \div x.den
        r == (10 * x.num) % x.den
    IN  IF 2 * r > x.den THEN q + 1
        ELSE IF 2 * r < x.den THEN q
        ELSE IF q % 2 = 0 THEN q ELSE q + 1

\* _score_completeness as it would be if a short response started from 30
\* and received the bonuses like any other
score_completeness_bonuses_always(requirement, response) ==
    LET base == IF response.chars < 50 THEN 30 ELSE 60
        half == IF 2 * response.words >= requirement.words THEN 15 ELSE 0
        full == IF response.words >= requirement.words THEN 10 ELSE 0
        answered ==
            IF requirement.questions > 0
            THEN IF response.answers >= requirement.questions THEN 15 ELSE 0
            ELSE 15
    IN  MinOf(base + half + full + answered, 100)

\* lines 115-146
score_completeness(requirement, response) ==
    IF response.chars < 50                   \* len(response.strip()) < 50
    THEN 30
    ELSE LET half == IF 2 * response.words >= requirement.words THEN 15 ELSE 0
             full == IF response.words >= requirement.words THEN 10 ELSE 0
             answered ==
                 IF requirement.questions > 0
                 THEN IF response.answers >= requirement.questions THEN 15 ELSE 0
                 ELSE 15
         IN  MinOf(60 + half + full + answered, 100)

\* _score_clarity without the final max(min(score, 100.0), 0.0)
score_clarity_unclamped(response) ==
    LET good == MinOf(response.good[1] * 5, 15) + MinOf(response.good[2] * 5, 15)
                  + MinOf(response.good[3] * 5, 15)
        poor == (response.poor[1] + response.poor[2] + response.poor[3]) * 10
        len == response.sentence
        sentences == IF len.nan THEN 0
                     ELSE IF 10 <= len.mean /\ len.mean <= 25 THEN 10
                     ELSE IF len.mean > 40 THEN -15
                     ELSE 0
        bullets == IF response.bullet THEN 10 ELSE 0
    IN  70 + good - poor + sentences + bullets

\* lines 148-175
score_clarity(response) ==
    LET good == MinOf(response.good[1] * 5, 15) + MinOf(response.good[2] * 5, 15)
                  + MinOf(response.good[3] * 5, 15)
        poor == (response.poor[1] + response.poor[2] + response.poor[3]) * 10
        len == response.sentence
        sentences == IF len.nan THEN 0       \* every comparison with nan is false
                     ELSE IF 10 <= len.mean /\ len.mean <= 25 THEN 10
                     ELSE IF len.mean > 40 THEN -15
                     ELSE 0
        bullets == IF response.bullet THEN 10 ELSE 0
    IN  MaxOf(MinOf(70 + good - poor + sentences + bullets, 100), 0)

\* lines 177-207
score_professionalism(response) ==
    LET first_person == IF response.first_person THEN 5 ELSE 0
        passive == IF response.words > 0 /\ 10 * response.passive > 3 * response.words
                   THEN 15 ELSE 0            \* passive_ratio > 0.3
        capital == IF response.upper THEN 5 ELSE 0
    IN  MaxOf(MinOf(70 + 3 * response.positive - 10 * response.negative
                      + first_person - passive + capital, 100), 0)

\* lines 209-238
score_relevance(requirement, response) ==
    IF requirement.terms = 0
    THEN Rat(70, 1)
    ELSE LET n == requirement.terms
             t == requirement.technical
             den == IF t > 0 THEN n * t ELSE n
             base == 50 * den + 50 * response.overlap * (den \div n)
                       + (IF t > 0 THEN 20 * response.addressed * (den \div t) ELSE 0)
         IN  Rat(MinOf(base, 100 * den), den)

\* _generate_feedback as it would be without the two positive messages of
\* lines 260-263
generate_feedback_without_praise(completeness, clarity, professionalism, relevance, response) ==
    LET low(cond, msg) == IF cond THEN <<msg>> ELSE <<>>
        feedback ==
            low(completeness < 70, "Response seems incomplete. Consider providing more detailed information.")
            \o low(clarity < 70, "Response could be clearer. Try using bullet points or numbered lists.")
            \o low(professionalism < 70, "Consider using more professional business language.")
            \o low(Below(relevance, 70), "Response doesn't fully address the requirement. Include more specific details.")
            \o low(response.words < 30, "Response is too brief. Provide more comprehensive information.")
    IN  IF feedback # <<>> THEN feedback
        ELSE <<"Response meets basic quality standards.">>

\* lines 240-266; relevance is a rational, the others whole numbers
generate_feedback(completeness, clarity, professionalism, relevance, response) ==
    LET low(cond, msg) == IF cond THEN <<msg>> ELSE <<>>
        all80 == /\ completeness >= 80 /\ clarity >= 80 /\ professionalism >= 80
                 /\ AtLeast(relevance, 80)
        all70 == /\ completeness >= 70 /\ clarity >= 70 /\ professionalism >= 70
                 /\ AtLeast(relevance, 70)
        feedback ==
            low(completeness < 70, "Response seems incomplete. Consider providing more detailed information.")
            \o low(clarity < 70, "Response could be clearer. Try using bullet points or numbered lists.")
            \o low(professionalism < 70, "Consider using more professional business language.")
            \o low(Below(relevance, 70), "Response doesn't fully address the requirement. Include more specific details.")
            \o low(response.words < 30, "Response is too brief. Provide more comprehensive information.")
            \o (IF all80 THEN <<"Excellent response! Ready for submission.">>
                ELSE IF all70 THEN <<"Good response with minor room for improvement.">>
                ELSE <<>>)
    IN  IF feedback # <<>> THEN feedback
        ELSE <<"Response meets basic quality standards.">>

\* lines 268-277
determine_status(overall_score) ==
    IF AtLeast(overall_score, 85) THEN "Excellent"
    ELSE IF AtLeast(overall_score, 75) THEN "Good"
    ELSE IF AtLeast(overall_score, 60) THEN "Needs Review"
    ELSE "Poor"

\* the dataclass; the five scores in tenths of a point
QualityScore(overall_score, completeness, clarity, professionalism, relevance, feedback, status) ==
    [scored |-> TRUE, overall_score |-> overall_score,
     completeness |-> completeness, clarity |-> clarity,
     professionalism |-> professionalism, relevance |-> relevance,
     feedback |-> feedback, status |-> status]

\* quality_score = None
NoScore ==
    [scored |-> FALSE, overall_score |-> 0, completeness |-> 0, clarity |-> 0,
     professionalism |-> 0, relevance |-> 0, feedback |-> <<>>, status |-> ""]

\* score_response without the early return for an empty response
score_response_no_early_return(requirement, response) ==
    LET completeness == score_completeness(requirement, response)
        clarity == score_clarity(response)
        professionalism == score_professionalism(response)
        relevance == score_relevance(requirement, response)
        overall == Rat((30 * completeness + 25 * clarity + 25 * professionalism)
                          * relevance.den + 20 * relevance.num,
                       100 * relevance.den)
    IN  QualityScore(Round1(overall), 10 * completeness, 10 * clarity,
                     10 * professionalism, Round1(relevance),
                     generate_feedback(completeness, clarity, professionalism,
                                       relevance, response),
                     determine_status(overall))

\* lines 61-113
score_response(requirement, response) ==
    IF response.len = 0 \/ response.chars = 0 \* not response or not response.strip()
    THEN QualityScore(0, 0, 0, 0, 0, <<"Response is empty or missing">>, "Poor")
    ELSE LET completeness == score_completeness(requirement, response)
             clarity == score_clarity(response)
             professionalism == score_professionalism(response)
             relevance == score_relevance(requirement, response)
             overall == Rat((30 * completeness + 25 * clarity + 25 * professionalism)
                               * relevance.den + 20 * relevance.num,
                            100 * relevance.den)
         IN  QualityScore(Round1(overall), 10 * completeness, 10 * clarity,
                          10 * professionalism, Round1(relevance),
                          generate_feedback(completeness, clarity, professionalism,
                                            relevance, response),
                          determine_status(overall))

(***************************************************************************)
(* The texts of the pipeline as the scorer measures them.  Their tokens    *)
(* are single words; none is matched by a pattern of the scorer, and the   *)
(* query shares no word with an answer.                                    *)
(***************************************************************************)
Words(str) == SelectSeq(str, LAMBDA t : t \notin Whitespace)

RECURSIVE Chars(_)
Chars(words) ==
    IF words = <<>> THEN 0
    ELSE Len(Head(words)) + (IF Len(words) > 1 THEN 1 ELSE 0) + Chars(Tail(words))

Capitalised == {"We", "Error", "Error:"}

\* the tokens of the model that are in stop_words
StopWords == {"a", "to"}

MeasureRequirement(str) ==
    LET words == Words(str)
        terms == {words[i] : i \in 1..Len(words)} \ StopWords
    IN  Requirement(Len(words), 0, Cardinality(terms), 0)

MeasureResponse(str) ==
    [len |-> Chars(str), chars |-> Chars(Words(str)), words |-> Len(Words(str)),
     answers |-> 0, good |-> <<0, 0, 0>>, poor |-> <<0, 0, 0>>,
     sentence |-> IF IsBlank(str) THEN NaN ELSE Mean(Len(Words(str))),
     bullet |-> FALSE, positive |-> 0, negative |-> 0, first_person |-> FALSE,
     passive |-> 0, upper |-> str # <<>> /\ Head(str) \in Capitalised,
     overlap |-> 0, addressed |-> 0]

NewAsk(query, top_k, include_quality_score) ==
    [kind |-> "ask", query |-> query, top_k |-> top_k,
     include_quality_score |-> include_quality_score,
     embedding |-> <<>>, context |-> <<>>, prompt |-> <<>>,
     reply |-> "", raw |-> Null, answer |-> <<>>, quality |-> NoScore,
     returned |-> FALSE, exc |-> ""]

Raise(exc) ==
    /\ pc' = "Raised"
    /\ ask' = [ask EXCEPT !.exc = exc]

\* rag.ask(query, top_k, include_quality_score) is called
AskBegin ==
    \E query \in QueryTexts : \E top_k \in 1..MaxK : \E include \in BOOLEAN :
        /\ pc \in {"idle", "Done", "Raised"}
        /\ pc' = "Embedding"
        /\ ask' = NewAsk(query, top_k, include)
        /\ stages' = <<>>
        /\ UNCHANGED <<storeVars, appVars>>

\* retrieve_context as it would be if a failed embedding were replaced by a
\* zero vector and the search went on
Embed_with_fallback ==
    \E embedded \in BOOLEAN :
        /\ pc = "Embedding"
        /\ stages' = Append(stages, "Embedding")
        /\ LET refs == FreshRefs(2)
               r == load(disk, refs[1], refs[2])
               go == /\ pc' = "Retrieving"
                     /\ ask' = IF embedded
                               THEN [ask EXCEPT !.embedding = embed_text(ask.query)]
                               ELSE [ask EXCEPT !.embedding = <<0, 0, 0>>,
                                                !.exc = "EmbeddingError"]
           IN  IF 2 \in Live
               THEN UNCHANGED <<store, heap>> /\ go
               ELSE IF r.raised
               THEN /\ Raise(r.exc)
                    /\ UNCHANGED <<store, heap>>
               ELSE /\ store' = [store EXCEPT ![2] = r.self]
                    /\ heap' = [heap EXCEPT ![refs[1]] = r.index, ![refs[2]] = r.dict]
                    /\ go
        /\ UNCHANGED <<disk, saved, saving, op, appVars>>

\* retrieve_context, lines 28-32: the store is loaded on first use, the query
\* is embedded; the embedding capability may raise
Embed ==
    \E embedded \in BOOLEAN :
        /\ pc = "Embedding"
        /\ stages' = Append(stages, "Embedding")
        /\ LET refs == FreshRefs(2)
               r == load(disk, refs[1], refs[2])
           IN  IF 2 \in Live
               THEN /\ UNCHANGED <<store, heap>>
                    /\ IF embedded
                       THEN /\ pc' = "Retrieving"
                            /\ ask' = [ask EXCEPT !.embedding = embed_text(ask.query)]
                       ELSE Raise("EmbeddingError")
               ELSE IF r.raised
               THEN /\ Raise(r.exc)
                    /\ UNCHANGED <<store, heap>>
               ELSE /\ store' = [store EXCEPT ![2] = r.self]
                    /\ heap' = [heap EXCEPT ![refs[1]] = r.index, ![refs[2]] = r.dict]
                    /\ IF embedded
                       THEN /\ pc' = "Retrieving"
                            /\ ask' = [ask EXCEPT !.embedding = embed_text(ask.query)]
                       ELSE Raise("EmbeddingError")
        /\ UNCHANGED <<disk, saved, saving, op, appVars>>

\* retrieve_context, lines 35-42
Retrieve ==
    /\ pc = "Retrieving"
    /\ stages' = Append(stages, "Retrieving")
    /\ LET r == similarity_search(IndexOf(2), DictOf(2), ask.embedding, ask.top_k)
       IN  IF r.raised
           THEN Raise(r.exc)
           ELSE /\ pc' = "PromptBuilding"
                /\ ask' = [ask EXCEPT !.context =
                              Join([i \in 1..Len(r.ret) |-> r.ret[i][2]])]
    /\ UNCHANGED <<storeVars, appVars>>

\* generate_answer, lines 46-61
BuildPrompt ==
    /\ pc = "PromptBuilding"
    /\ stages' = Append(stages, "PromptBuilding")
    /\ pc' = "Generating"
    /\ ask' = [ask EXCEPT !.prompt = Prompt(ask.query, ask.context)]
    /\ UNCHANGED <<storeVars, appVars>>

\* generate_answer, lines 63-78 and the except clauses for them
Generate ==
    \E reply \in Replies :
        /\ pc = "Generating"
        /\ stages' = Append(stages, "Generating")
        /\ LET r == post_generate(reply)
               e == except_clauses(r.exc)
           IN  IF ~r.raised
               THEN /\ pc' = "PostProcessing"
                    /\ ask' = [ask EXCEPT !.reply = reply.kind, !.raw = r.raw]
               ELSE IF e.caught
               THEN /\ pc' = "Scoring"
                    /\ ask' = [ask EXCEPT !.reply = reply.kind, !.answer = e.answer]
               ELSE /\ pc' = "Raised"
                    /\ ask' = [ask EXCEPT !.reply = reply.kind, !.exc = r.exc]
        /\ UNCHANGED <<storeVars, appVars>>

\* generate_answer, lines 80-81, inside the same try
Humanize ==
    /\ pc = "PostProcessing"
    /\ stages' = Append(stages, "PostProcessing")
    /\ LET r == humanize_response(ask.raw)
           e == except_clauses(r.exc)
       IN  IF ~r.raised
           THEN /\ pc' = "Scoring"
                /\ ask' = [ask EXCEPT !.answer = r.text]
           ELSE IF e.caught
           THEN /\ pc' = "Scoring"
                /\ ask' = [ask EXCEPT !.answer = e.answer]
           ELSE Raise(r.exc)
    /\ UNCHANGED <<storeVars, appVars>>

\* ask as it would be if the answer were scored whether asked for or not
Score_always ==
    /\ pc = "Scoring"
    /\ stages' = Append(stages, "Scoring")
    /\ pc' = "Done"
    /\ ask' = [ask EXCEPT
                 !.quality = score_response(MeasureRequirement(<<ask.query>>),
                                            MeasureResponse(ask.answer)),
                 !.returned = TRUE]
    /\ UNCHANGED <<storeVars, appVars>>

\* ask, lines 138-163: the score, when asked for, and the result
Score ==
    /\ pc = "Scoring"
    /\ stages' = IF ask.include_quality_score THEN Append(stages, "Scoring") ELSE stages
    /\ pc' = "Done"
    /\ ask' = [ask EXCEPT
                 !.quality = IF ask.include_quality_score
                             THEN score_response(MeasureRequirement(<<ask.query>>),
                                            MeasureResponse(ask.answer))
                             ELSE NoScore,
                 !.returned = TRUE]
    /\ UNCHANGED <<storeVars, appVars>>

\* a snapshot directory as index_documents leaves it
EmptyDir == [index |-> NoFile, docstore |-> NoFile]
IndexedDir ==
    LET r == add_texts(FAISSStore(TestDimension, 1, 2), IndexFlatL2(TestDimension),
                       EmptyDict, <<"a", "b">>, EmbedAll(<<"a", "b">>))
    IN  save_docstore(save_index(EmptyDir, r.index), r.dict, r.self.current_id)

AskInit ==
    /\ store = [h \in Handles |-> NoStore]
    /\ heap = [r \in Refs |-> Free]
    /\ disk \in {EmptyDir, IndexedDir}
    /\ saved = [kind |-> "none"]
    /\ saving = 0
    /\ op = NoOp
    /\ pc = "idle"
    /\ ask = NoAsk
    /\ stages = <<>>
    /\ AppInit

(***************************************************************************)
(* SpecAsk: the pipeline answers queries one after the other.              *)
(***************************************************************************)
AskNext ==
    AskBegin \/ Embed \/ Retrieve \/ BuildPrompt \/ Generate \/ Humanize \/ Score

SpecAsk == AskInit /\ [][AskNext]_vars

(***************************************************************************)
(* Properties of the store.                                                *)
(***************************************************************************)
Min(a, b) == IF a < b THEN a ELSE b

LoadReturned == op.name = "load" /\ ~op.raised
Searched == op.name = "similarity_search"

\* similarity_search of the store whose value is `view`
SearchView(view, q, k) ==
    similarity_search([kind |-> "index", d |-> view.d, xb |-> view.xb],
                      [kind |-> "dict", items |-> view.items], q, k)

\* C1: a store returned by load after save answers every similarity_search
\* (every query, every k) exactly as the store that was saved did: the same
\* ids, texts and distances in the same order.
C1_RoundTripSearch ==
    LoadReturned =>
        \A q \in Queries : \A k \in 1..MaxK :
            similarity_search(IndexOf(2), DictOf(2), q, k) = SearchView(saved, q, k)

\* a load has just returned a store of two documents, both found by a search
C1_Witness ==
    /\ LoadReturned
    /\ Len(saved.xb) = 2
    /\ Len(similarity_search(IndexOf(2), DictOf(2), <<1, 1, 0>>, 2).ret) = 2

\* C2: whatever add_texts calls were made, lists of different lengths
\* included, every store has as many vectors in its index as entries in
\* document_map, and that number is current_id.
C2_CountsAgree ==
    \A h \in Live :
        /\ ntotal(IndexOf(h)) = Cardinality(Keys(DictOf(h)))
        /\ Cardinality(Keys(DictOf(h))) = store[h].current_id

\* the ids in use are 0 .. current_id-1
C3_IdsUsed == \A h \in Live : Keys(DictOf(h)) = 0..(store[h].current_id - 1)

\* a call that returns gives the n texts the next n ids, in input order
C3_CallAssignsNextIds ==
    \A h \in Live : \A texts \in TextLists : \A embeddings \in EmbeddingChoices(texts) :
        LET r == add_texts(store[h], IndexOf(h), DictOf(h), texts, embeddings)
            n == Len(texts)
            cur == store[h].current_id
        IN  ~r.raised =>
                /\ r.ret = [i \in 1..n |-> cur + i - 1]
                /\ r.self.current_id = cur + n
                /\ Cardinality(Keys(r.dict)) = Cardinality(Keys(DictOf(h))) + n
                /\ \A i \in 1..n : r.dict.items[r.ret[i]] = texts[i]

\* a step takes no id from its document, and hands out none that is in use;
\* a loaded store has the ids and the counter of the snapshot
C3_StepKeepsIds ==
    /\ op'.name = "add_texts" =>
          \A h \in Live : \A id \in Keys(DictOf(h)) :
              /\ id \in Keys(heap'[store'[h].document_map])
              /\ heap'[store'[h].document_map].items[id] = DictOf(h).items[id]
              /\ op'.h = h => \A i \in 1..Len(op'.ret) : op'.ret[i] # id
    /\ (op'.name = "load" /\ ~op'.raised) =>
          /\ heap'[store'[2].document_map].items = saved.items
          /\ store'[2].current_id = saved.current_id

\* C3: ids are handed out from 0 without gaps; a call add_texts that returns
\* gives the n texts the ids current_id .. current_id+n-1 in input order,
\* raises the document count by n and leaves every earlier id with its text;
\* a store loaded from a snapshot carries on with the ids and counter saved.
\* No id of a store is ever given to a second document.
C3_IdsNeverReassigned ==
    [](C3_IdsUsed /\ C3_CallAssignsNextIds) /\ [][C3_StepKeepsIds]_vars

\* the loaded store of one document has just been given id 1 for a new one
C3_Witness ==
    /\ op.name = "add_texts" /\ op.h = 2 /\ ~op.raised
    /\ op.ret = <<1>>
    /\ saved.current_id = 1

\* C4: a call add_texts in which an embedding has a length other than the
\* index dimension raises, and index, document_map and current_id are as
\* before the call, also when only the last embedding of a batch is wrong.
C4_MismatchAddsNothing ==
    \A h \in Live : \A texts \in TextLists : \A embeddings \in EmbeddingChoices(texts) :
        (\E i \in 1..Len(embeddings) : Len(embeddings[i]) # IndexOf(h).d) =>
            LET r == add_texts(store[h], IndexOf(h), DictOf(h), texts, embeddings)
            IN  /\ r.raised
                /\ r.self = store[h]
                /\ r.index = IndexOf(h)
                /\ r.dict = DictOf(h)

\* a batch whose last embedding alone is wrong was refused by a store that
\* holds a document
C4_Witness ==
    /\ op.name = "add_texts" /\ op.raised /\ op.exc = "ValueError"
    /\ store[op.h].current_id = 1
    /\ ntotal(IndexOf(op.h)) = 1

\* C5: similarity_search(q, k) on a store of n documents returns min(k, n)
\* triples (id, text, distance), each a stored document with its own text and
\* its squared L2 distance to q, in order of non-decreasing distance, and no
\* document left out is closer than one returned; an empty store gives the
\* empty list.  It does not raise.
C5_SearchReturnsNearest ==
    Searched =>
        LET index == IndexOf(op.h)
            dict == DictOf(op.h)
            n == Cardinality(Keys(dict))
            ret == op.ret
            ids == {ret[r][1] : r \in 1..Len(ret)}
        IN  /\ ~op.raised
            /\ Len(ret) = Min(op.k, n)
            /\ Cardinality(ids) = Len(ret)
            /\ \A r \in 1..Len(ret) :
                  /\ ret[r][1] \in Keys(dict)
                  /\ ret[r][2] = dict.items[ret[r][1]]
                  /\ ret[r][3] = L2sqr(index.xb[ret[r][1] + 1], op.q)
                  /\ r > 1 => ret[r - 1][3] <= ret[r][3]
                  /\ \A id \in Keys(dict) \ ids :
                        ret[r][3] <= L2sqr(index.xb[id + 1], op.q)

\* a search for two on a store of one document returned that one, and it is
\* not at distance 0
C5_Witness ==
    /\ Searched /\ op.k = 2 /\ ~op.raised
    /\ Cardinality(Keys(DictOf(op.h))) = 1
    /\ Len(op.ret) = 1
    /\ op.ret[1][3] > 0

\* C6, as stated: for every stored document, the search for its own
\* embedding with k = 1 returns that document's id.
C6_OwnIdOnTop ==
    \A h \in Live : \A id \in Keys(DictOf(h)) :
        LET r == similarity_search(IndexOf(h), DictOf(h), IndexOf(h).xb[id + 1], 1)
        IN  /\ ~r.raised
            /\ Len(r.ret) = 1
            /\ r.ret[1][1] = id

\* C6, amended: for every stored document, the search for its own embedding
\* with k = 1 returns one document at distance 0 with that same embedding:
\* the earliest added of them, which is the document itself when no earlier
\* one has its embedding.
C6_EarliestEqualOnTop ==
    \A h \in Live : \A id \in Keys(DictOf(h)) :
        LET xb == IndexOf(h).xb
            r == similarity_search(IndexOf(h), DictOf(h), xb[id + 1], 1)
        IN  /\ ~r.raised
            /\ Len(r.ret) = 1
            /\ r.ret[1][3] = 0
            /\ xb[r.ret[1][1] + 1] = xb[id + 1]
            /\ \A j \in Keys(DictOf(h)) : xb[j + 1] = xb[id + 1] => r.ret[1][1] <= j
            /\ r.ret[1][2] = DictOf(h).items[r.ret[1][1]]

\* the store holds text "a" twice and was asked for the embedding of "a"
C6_Witness ==
    /\ Searched /\ op.k = 1 /\ op.q = embed_text("a")
    /\ DictOf(op.h).items = [id \in {0, 1} |-> "a"]
    /\ op.ret[1][1] = 0

C8_LoadReturnsSaved == LoadReturned => View(2) = saved

\* no index and no document_map belongs to two stores
C8_NoSharedObjects ==
    \A g \in Live : \A h \in Live \ {g} :
        {store[g].index, store[g].document_map}
            \cap {store[h].index, store[h].document_map} = {}

\* only save writes the files; add_texts and load leave the other store alone
C8_StepFrame ==
    /\ op'.name # "save" => disk' = disk
    /\ op'.name = "add_texts" =>
          \A g \in Live \ {op'.h} :
              /\ store'[g] = store[g]
              /\ heap'[store[g].index] = heap[store[g].index]
              /\ heap'[store[g].document_map] = heap[store[g].document_map]
    /\ op'.name = "load" => store'[1] = store[1] /\ View(1)' = View(1)

\* C8: only save writes the snapshot; a load returns the documents, vectors
\* and current_id of the last save, whatever was added in memory since; and
\* two stores share no object, so add_texts on one leaves the other as it was.
C8_SnapshotIndependent ==
    [](C8_LoadReturnsSaved /\ C8_NoSharedObjects) /\ [][C8_StepFrame]_vars

\* a load has just returned the saved store of one document although the
\* saving store had been given a second one after the save
C8_Witness ==
    /\ LoadReturned
    /\ saved.current_id = 1
    /\ store[1].current_id = 2
    /\ store[2].current_id = 1

\* C9: a load that returns a store returns one with as many vectors in its
\* index as entries in document_map; from files of two different saves it
\* raises instead.
C9_LoadedStoreConsistent ==
    LoadReturned => ntotal(IndexOf(2)) = Cardinality(Keys(DictOf(2)))

(***************************************************************************)
(* Properties of the pipeline.                                             *)
(***************************************************************************)
BackendFailures == TransportFailures \cup HttpErrors

\* C10: when the call to the generation backend fails by transport error,
\* timeout or HTTP error status, ask() does not raise: it goes on to return a
\* result whose answer begins "Error connecting to".
C10_BackendFailureBecomesAnswer ==
    (pc \in {"Scoring", "Done", "Raised"} /\ ask.reply \in BackendFailures) =>
        /\ pc # "Raised"
        /\ StartsWith(ask.answer, ErrorPrefix)
        /\ pc = "Done" => ask.returned

\* an ask() has returned after the backend answered with an HTTP error
C10_Witness ==
    /\ pc = "Done" /\ ask.returned
    /\ ask.reply = "HTTPError"
    /\ ask.include_quality_score /\ ask.quality.scored
    /\ ask.context # <<>>

\* an answer that is an error string: "Error connecting to ..." or "Error: ..."
ErrorPrefixed(answer) == answer # <<>> /\ Head(answer) \in {"Error", "Error:"}

\* the reply kinds of C11: status 200 with a body ask() cannot use
MalformedReply ==
    \/ ask.reply \in Malformed
    \/ ask.reply = "OK" /\ ask.raw.type # "str"

\* C11: after a malformed reply with HTTP 200 (not JSON, not an object, no
\* `response` field, `response` not a string) ask() does not raise, and the
\* answer it goes on to return is an error-prefixed string.
C11_MalformedReplyBecomesAnswer ==
    (pc \in {"Scoring", "Done", "Raised"} /\ MalformedReply) =>
        /\ pc # "Raised"
        /\ ErrorPrefixed(ask.answer)

StageOrder ==
    <<"Embedding", "Retrieving", "PromptBuilding", "Generating", "PostProcessing",
      "Scoring">>

\* the stages of StageOrder other than those in `skipped`, in order
StagesWithout(skipped) == SelectSeq(StageOrder, LAMBDA st : st \notin skipped)

IsPrefixOf(p, q) == Len(p) <= Len(q) /\ SubSeq(q, 1, Len(p)) = p

\* generation failed and the failure became the answer
GenerationFailed == ask.reply # "" /\ ask.reply # "OK"

\* C12, as stated: a call whose embedding step succeeded goes through all of
\* Embedding, Retrieving, PromptBuilding, Generating, PostProcessing, Scoring
\* (when enabled) to Done, whether generation succeeds or fails.
C12_AllStagesOnEveryPath ==
    /\ pc = "Raised" => stages = <<"Embedding">>
    /\ pc = "Done" =>
          stages = StagesWithout(IF ask.include_quality_score THEN {} ELSE {"Scoring"})

\* C12, amended: the stages a call has been through are in the order of
\* StageOrder, none twice; PostProcessing is left out exactly when generation
\* failed and the failure became the answer, Scoring exactly when it is
\* disabled, and no other stage is left out; a call ends before Done only by
\* raising, in the stage it had reached.
C12_StagesInOrder ==
    pc # "idle" =>
        LET skipped == (IF GenerationFailed THEN {"PostProcessing"} ELSE {})
                         \cup (IF ask.include_quality_score THEN {} ELSE {"Scoring"})
        IN  /\ IsPrefixOf(stages, StagesWithout(skipped))
            /\ pc = "Done" => stages = StagesWithout(skipped)
            /\ pc \notin {"Done", "Raised"} =>
                  /\ pc \in {StageOrder[i] : i \in 1..Len(StageOrder)}
                  /\ IsPrefixOf(Append(stages, pc), StagesWithout(skipped \ {"Scoring"}))
            /\ pc = "Raised" => stages # <<>> /\ ask.exc # ""

\* a call with scoring enabled has returned the answer a backend timeout
\* became, without post-processing
C12_Witness ==
    /\ pc = "Done" /\ ask.reply = "Timeout" /\ ask.include_quality_score
    /\ stages = <<"Embedding", "Retrieving", "PromptBuilding", "Generating", "Scoring">>

(***************************************************************************)
(* RAGPipeline.process_requirements_batch: one ask() per requirement, in a *)
(* try / except of its own, then the progress callback.                    *)
(***************************************************************************)
MaxRequirements == 2    \* longest list of requirements passed to the batch
DefaultTopK == 3        \* top_k default of process_requirements_batch

RequirementLists == SeqsUpTo(QueryTexts, MaxRequirements)

NewBatch(requirements, top_k, callback) ==
    [kind |-> "batch", requirements |-> requirements, top_k |-> top_k,
     callback |-> callback,         \* a progress_callback was passed
     i |-> 0,                       \* items done
     results |-> <<>>,
     progress |-> <<>>,             \* the calls progress_callback has received
     returned |-> FALSE, raised |-> FALSE]

BatchActive == batch.kind = "batch" /\ ~batch.returned /\ ~batch.raised

BatchFrame == UNCHANGED <<storeVars, call, apiVars, runs>>

\* rag.process_requirements_batch(requirements, top_k, progress_callback)
BatchBegin ==
    \E requirements \in RequirementLists : \E callback \in BOOLEAN :
        /\ ~BatchActive
        /\ pc = "idle"
        /\ batch' = NewBatch(requirements, DefaultTopK, callback)
        /\ UNCHANGED askVars
        /\ BatchFrame

\* line 176: result = self.ask(requirement, top_k)
BatchItemStart ==
    /\ BatchActive
    /\ pc = "idle"
    /\ batch.i < Len(batch.requirements)
    /\ pc' = "Embedding"
    /\ ask' = NewAsk(batch.requirements[batch.i + 1], batch.top_k, TRUE)
    /\ stages' = <<>>
    /\ UNCHANGED batch
    /\ BatchFrame

SuccessItem(requirement, answer) ==
    [requirement |-> requirement, response |-> answer, status |-> "success"]
ErrorItem(requirement, exc) ==
    [requirement |-> requirement,
     response |-> <<"Error", "processing", "requirement:", exc>>,
     status |-> "error"]

\* the loop body as it would be without the try / except around ask()
BatchItemEnd_no_try ==
    /\ BatchActive
    /\ pc \in {"Done", "Raised"}
    /\ pc' = "idle"
    /\ batch' =
          IF pc = "Raised"
          THEN [batch EXCEPT !.raised = TRUE]
          ELSE [batch EXCEPT
                  !.results = Append(@, SuccessItem(batch.requirements[batch.i + 1],
                                                    ask.answer)),
                  !.progress = IF batch.callback
                               THEN Append(@, <<batch.i + 1, Len(batch.requirements)>>)
                               ELSE @,
                  !.i = @ + 1]
    /\ UNCHANGED <<ask, stages>>
    /\ BatchFrame

\* the loop body as it would be if an answer that is an error string were
\* tagged like an exception
BatchItemEnd_error_answers_tagged ==
    /\ BatchActive
    /\ pc \in {"Done", "Raised"}
    /\ pc' = "idle"
    /\ batch' = [batch EXCEPT
                   !.results = Append(@,
                            IF pc = "Done"
                            THEN [SuccessItem(batch.requirements[batch.i + 1], ask.answer)
                                    EXCEPT !.status =
                                        IF ask.answer # <<>> /\ Head(ask.answer) = "Error"
                                        THEN "error" ELSE "success"]
                            ELSE ErrorItem(batch.requirements[batch.i + 1], ask.exc)),
                   !.progress = IF batch.callback
                                THEN Append(@, <<batch.i + 1, Len(batch.requirements)>>)
                                ELSE @,
                   !.i = @ + 1]
    /\ UNCHANGED <<ask, stages>>
    /\ BatchFrame

\* lines 177-192: the result or the caught exception is appended, then the
\* progress callback is called
BatchItemEnd ==
    /\ BatchActive
    /\ pc \in {"Done", "Raised"}
    /\ pc' = "idle"
    /\ batch' = [batch EXCEPT
                   !.results = Append(@,
                            IF pc = "Done"
                            THEN SuccessItem(batch.requirements[batch.i + 1], ask.answer)
                            ELSE ErrorItem(batch.requirements[batch.i + 1], ask.exc)),
                   !.progress = IF batch.callback
                                THEN Append(@, <<batch.i + 1, Len(batch.requirements)>>)
                                ELSE @,
                   !.i = @ + 1]
    /\ UNCHANGED <<ask, stages>>
    /\ BatchFrame

\* line 195: return results
BatchReturn ==
    /\ BatchActive
    /\ pc = "idle"
    /\ batch.i = Len(batch.requirements)
    /\ batch' = [batch EXCEPT !.returned = TRUE]
    /\ UNCHANGED askVars
    /\ BatchFrame

(***************************************************************************)
(* SpecBatch: batches are processed one after the other.                   *)
(***************************************************************************)
BatchNext ==
    \/ BatchBegin \/ BatchItemStart \/ BatchItemEnd \/ BatchReturn
    \/ Embed \/ Retrieve \/ BuildPrompt \/ Generate \/ Humanize \/ Score

SpecBatch == AskInit /\ [][BatchNext]_vars

(***************************************************************************)
(* Properties of the batch.                                                *)
(***************************************************************************)
\* the results so far are those of the first i requirements, in input order,
\* each tagged, and the callback has been called with (1, n) .. (i, n)
C13_ResultsFollowInput ==
    batch.kind = "batch" =>
        LET n == Len(batch.requirements)
        IN  /\ batch.i <= n
            /\ Len(batch.results) = batch.i
            /\ \A j \in 1..batch.i :
                  /\ batch.results[j].requirement = batch.requirements[j]
                  /\ batch.results[j].status \in {"success", "error"}
            /\ batch.progress = IF batch.callback
                                THEN [j \in 1..batch.i |-> <<j, n>>]
                                ELSE <<>>
            /\ ~batch.raised
            /\ batch.returned => batch.i = n

\* an item ends with one more result: `error` when its ask() raised,
\* `success` when it returned, and the batch goes on
C13_ItemStep ==
    (pc \in {"Done", "Raised"} /\ pc' = "idle") =>
        /\ batch'.i = batch.i + 1
        /\ batch'.results[batch'.i].status = IF pc = "Raised" THEN "error" ELSE "success"
        /\ SubSeq(batch'.results, 1, batch.i) = batch.results
        /\ ~batch'.returned /\ ~batch'.raised

\* C13: the batch of n requirements goes through them in input order and
\* returns n results, result i carrying requirement i and tagged success or
\* error; an ask() that raises gives an item tagged error and the following
\* items are still processed; the progress callback, when given, is called
\* once per item with (i, n), i = 1..n in increasing order.
C13_BatchInOrder == []C13_ResultsFollowInput /\ [][C13_ItemStep]_vars

\* a batch of two has returned: ask() raised for the first requirement and
\* returned for the second
C13_Witness ==
    /\ batch.kind = "batch" /\ batch.returned
    /\ Len(batch.results) = 2
    /\ batch.results[1].status = "error"
    /\ batch.results[2].status = "success"
    /\ batch.progress = <<<<1, 2>>, <<2, 2>>>>

(***************************************************************************)
(* Inputs of the scorer.  A measured response is varied one aspect at a    *)
(* time (sizes and questions, clarity patterns, professional language,    *)
(* shared words) around a few base texts.                                  *)
(***************************************************************************)
MaxMatches == 2          \* most matches of one poor pattern / answers / questions
MaxGoodMatches == 4      \* most matches of one good clarity pattern
MaxTerms == 7            \* most distinct non-stop words of a requirement
PositivePhrases == 12    \* len(professional_phrases['positive'])
NegativePhrases == 9     \* len(professional_phrases['negative'])

\* a strong and a weak response
BaseResponses ==
    {[len |-> 200, chars |-> 200, words |-> 40, answers |-> 0,
      good |-> <<0, 0, 0>>, poor |-> <<0, 0, 0>>, sentence |-> Mean(15),
      bullet |-> FALSE, positive |-> 0, negative |-> 0, first_person |-> FALSE,
      passive |-> 0, upper |-> TRUE, overlap |-> 4, addressed |-> 0],
     [len |-> 12, chars |-> 10, words |-> 2, answers |-> 0,
      good |-> <<0, 0, 0>>, poor |-> <<1, 0, 0>>, sentence |-> Mean(2),
      bullet |-> FALSE, positive |-> 0, negative |-> 1, first_person |-> FALSE,
      passive |-> 0, upper |-> FALSE, overlap |-> 0, addressed |-> 0]}

BaseRequirements == {Requirement(15, 0, MaxTerms, 0), Requirement(0, 0, 0, 0)}

\* "" and "   "
EmptyResponses ==
    {[r EXCEPT !.len = n, !.chars = 0, !.words = 0, !.sentence = NaN,
               !.upper = FALSE, !.overlap = 0, !.passive = 0] :
        r \in BaseResponses, n \in {0, 3}}

\* what one text pair can measure to
Consistent(requirement, response) ==
    /\ requirement.terms <= requirement.words
    /\ requirement.technical <= requirement.terms
    /\ response.overlap <= requirement.terms
    /\ response.addressed <= MinOf(response.overlap, requirement.technical)
    /\ response.overlap - response.addressed
          <= requirement.terms - requirement.technical
    /\ response.overlap <= response.words
    /\ response.chars <= response.len
    /\ response.chars >= 2 * response.words - 1
    /\ (response.words = 0) = (response.chars = 0)
    /\ response.passive <= response.words
    /\ response.sentence.nan => response.words <= 1

Pair(requirement, response) == [requirement |-> requirement, response |-> response]

\* (len(response.strip()), len(response.split()))
Sizes == {<<10, 1>>, <<40, 10>>, <<60, 1>>, <<60, 10>>, <<200, 29>>, <<200, 40>>}

SizeInputs ==
    {Pair([q EXCEPT !.words = rw, !.questions = qs],
          [r EXCEPT !.len = s[1], !.chars = s[1], !.words = s[2], !.answers = an]) :
        q \in BaseRequirements, r \in BaseResponses, rw \in {0, 7, 15, 90},
        qs \in 0..MaxMatches, an \in 0..MaxMatches, s \in Sizes}

Counts(max) == {<<0, 0, 0>>} \cup {<<m, 0, 0>> : m \in 1..max}
                   \cup {<<m, m, m>> : m \in 1..max}

ClarityInputs ==
    {Pair(q, [r EXCEPT !.good = g, !.poor = p, !.sentence = s, !.bullet = b]) :
        q \in BaseRequirements, r \in BaseResponses, g \in Counts(MaxGoodMatches),
        p \in Counts(MaxMatches),
        s \in {NaN, Mean(1), Mean(9), Mean(10), Mean(25), Mean(26), Mean(40), Mean(41)},
        b \in BOOLEAN}

LanguageInputs ==
    {Pair(q, [r EXCEPT !.positive = pos, !.negative = neg, !.first_person = fp,
                       !.passive = pv, !.upper = up]) :
        q \in BaseRequirements, r \in BaseResponses, pos \in 0..PositivePhrases,
        neg \in 0..NegativePhrases, fp \in BOOLEAN, pv \in {0, 13}, up \in BOOLEAN}

SharedWordInputs ==
    {Pair(Requirement(15, 0, n, t), [r EXCEPT !.overlap = a, !.addressed = b]) :
        r \in BaseResponses, n \in 0..MaxTerms, t \in 0..MaxTerms, a \in 0..MaxTerms,
        b \in 0..MaxTerms}

EmptyInputs ==
    {Pair([q EXCEPT !.words = rw, !.questions = qs], r) :
        q \in BaseRequirements, r \in EmptyResponses, rw \in {0, 7, 15},
        qs \in 0..MaxMatches}

\* the inputs of a family that some pair of texts measures to
Valid(inputs) == {i \in inputs : Consistent(i.requirement, i.response)}

OtherFrame == UNCHANGED <<storeVars, askVars, batch, apiVars, runs>>

\* a call that has not returned yet
Pending(fn, args) == [fn |-> fn, args |-> args, returned |-> FALSE, result |-> <<>>]

\* nothing but the function called is in use
FunctionInit(fn, inputs) ==
    /\ store = [h \in Handles |-> NoStore]
    /\ heap = [r \in Refs |-> Free]
    /\ disk = EmptyDir
    /\ saved = [kind |-> "none"]
    /\ saving = 0
    /\ op = NoOp
    /\ pc = "idle"
    /\ ask = NoAsk
    /\ stages = <<>>
    /\ batch = NoBatch
    /\ runs = NoRuns
    /\ ApiInit
    /\ call \in {Pending(fn, i) : i \in inputs}

\* scorer.score_response(requirement, response)
ScoreResponse ==
    /\ call.fn = "score_response" /\ ~call.returned
    /\ call' = [call EXCEPT
                  !.returned = TRUE,
                  !.result = score_response(call.args.requirement, call.args.response)]
    /\ OtherFrame

(***************************************************************************)
(* SpecScore: a requirement and a response are scored.                     *)
(***************************************************************************)
ScoreInit ==
    \/ FunctionInit("score_response", Valid(SizeInputs))
    \/ FunctionInit("score_response", Valid(ClarityInputs))
    \/ FunctionInit("score_response", Valid(LanguageInputs))
    \/ FunctionInit("score_response", Valid(SharedWordInputs))
    \/ FunctionInit("score_response", Valid(EmptyInputs))

SpecScore == ScoreInit /\ [][ScoreResponse]_vars

(***************************************************************************)
(* Properties of the scorer.                                               *)
(***************************************************************************)
Scored == call.fn = "score_response" /\ call.returned

\* C14: a response that is empty or only whitespace gets, with every
\* requirement (the empty one included), overall_score 0, the four
\* sub-scores 0, status "Poor" and the feedback ["Response is empty or
\* missing"]; nothing is raised.
C14_EmptyResponseScoresZero ==
    (Scored /\ (call.args.response.len = 0 \/ call.args.response.chars = 0)) =>
        /\ call.result.overall_score = 0
        /\ call.result.completeness = 0
        /\ call.result.clarity = 0
        /\ call.result.professionalism = 0
        /\ call.result.relevance = 0
        /\ call.result.status = "Poor"
        /\ call.result.feedback = <<"Response is empty or missing">>

\* a response of three blanks has been scored against the empty requirement
C14_Witness ==
    /\ Scored
    /\ call.args.response.len = 3 /\ call.args.response.chars = 0
    /\ call.args.requirement.words = 0
    /\ call.result.status = "Poor"

\* C15: each of completeness, clarity, professionalism and relevance
\* returned lies in [0, 100] (0..1000 tenths), whatever the numbers of
\* matches, and so does overall_score, which is the weighted sum
\* 0.30, 0.25, 0.25, 0.20 of the four sub-scores rounded to one decimal: it
\* is within 0.06 of the weighted sum of the sub-scores as returned.
C15_ScoresInRange ==
    (Scored /\ call.args.response.chars > 0) =>
        LET q == call.result
            c == score_completeness(call.args.requirement, call.args.response)
            cl == score_clarity(call.args.response)
            p == score_professionalism(call.args.response)
            r == score_relevance(call.args.requirement, call.args.response)
            weighted == 30 * q.completeness + 25 * q.clarity
                          + 25 * q.professionalism + 20 * q.relevance
        IN  /\ \A x \in {q.completeness, q.clarity, q.professionalism, q.relevance,
                         q.overall_score} : 0 <= x /\ x <= 1000
            /\ q.overall_score =
                  Round1(Rat((30 * c + 25 * cl + 25 * p) * r.den + 20 * r.num,
                             100 * r.den))
            /\ 100 * q.overall_score - weighted <= 60
            /\ weighted - 100 * q.overall_score <= 60

\* a response with every positive phrase and one with many poor patterns:
\* the first has been scored, its professionalism is 100 and its relevance
\* no whole number
C15_Witness ==
    /\ Scored
    /\ call.args.response.positive = PositivePhrases
    /\ call.args.response.negative = 0
    /\ call.result.professionalism = 1000
    /\ call.result.overall_score < 1000

\* C16: the status goes with the returned overall_score: Excellent from 85,
\* Good from 75, Needs Review from 60, Poor below.
C16_StatusFollowsReturnedScore ==
    Scored =>
        call.result.status =
            IF call.result.overall_score >= 850 THEN "Excellent"
            ELSE IF call.result.overall_score >= 750 THEN "Good"
            ELSE IF call.result.overall_score >= 600 THEN "Needs Review"
            ELSE "Poor"


\* C15 as stated: overall_score equals the weighted sum of the four
\* sub-scores that are returned with it.
C15_OverallIsWeightedSum ==
    (Scored /\ call.args.response.chars > 0) =>
        LET q == call.result
        IN  100 * q.overall_score = 30 * q.completeness + 25 * q.clarity
                                      + 25 * q.professionalism + 20 * q.relevance


(***************************************************************************)
(* RFPResponseIndexer.detect_columns: the requirement and the response     *)
(* column of a table are found from its headers.                           *)
(***************************************************************************)
MaxColumns == 3

requirement_variations ==
    <<"requirement", "requirements", "question", "questions",
      "query", "queries", "item", "items", "task", "tasks",
      "rfp_requirement", "rfp_question", "description">>

response_variations ==
    <<"response", "responses", "answer", "answers", "reply", "replies",
      "solution", "solutions", "description", "details", "content",
      "rfp_response", "our_response", "proposal_response">>

UpperCase == "ABCDEFGHIJKLMNOPQRSTUVWXYZ"
LowerCase == "abcdefghijklmnopqrstuvwxyz"

\* the lower case of each upper-case letter
LowerOf ==
    [c \in {SubSeq(UpperCase, i, i) : i \in 1..Len(UpperCase)} |->
        LET i == CHOOSE j \in 1..Len(UpperCase) : SubSeq(UpperCase, j, j) = c
        IN  SubSeq(LowerCase, i, i)]

\* one character lowered
LowerChar(c) == IF c \in DOMAIN LowerOf THEN LowerOf[c] ELSE c

\* str.lower()
RECURSIVE str_lower(_)
str_lower(s) ==
    IF Len(s) = 0 THEN s
    ELSE LowerChar(SubSeq(s, 1, 1)) \o str_lower(SubSeq(s, 2, Len(s)))

\* str.strip()
RECURSIVE str_strip(_)
str_strip(s) ==
    IF Len(s) = 0 THEN s
    ELSE IF SubSeq(s, 1, 1) = " " THEN str_strip(SubSeq(s, 2, Len(s)))
    ELSE IF SubSeq(s, Len(s), Len(s)) = " " THEN str_strip(SubSeq(s, 1, Len(s) - 1))
    ELSE s

\* a in b, for strings
In(a, b) ==
    \E i \in 1..(Len(b) - Len(a) + 1) : SubSeq(b, i, i + Len(a) - 1) = a

\* Optional[str]
None == [some |-> FALSE, name |-> ""]
Some(name) == [some |-> TRUE, name |-> name]
Truthy(col) == col.some /\ col.name # ""

\* the test of both loops: var in col or col in var
Matches(var, col) == In(var, col) \/ In(col, var)

\* one pass of `for var in variations`, from variation v on; found is the
\* column held so far and excluded the column that may not be taken
RECURSIVE FindColumn(_, _, _, _, _, _)
FindColumn(variations, v, columns, columns_lower, found, excluded) ==
    IF v > Len(variations) THEN found
    ELSE LET hits == {i \in 1..Len(columns) :
                        /\ Matches(variations[v], columns_lower[i])
                        /\ Some(columns[i]) # excluded}
             first == CHOOSE i \in hits : \A j \in hits : i <= j
             now == IF hits = {} THEN found ELSE Some(columns[first])
         IN  IF Truthy(now) THEN now
             ELSE FindColumn(variations, v + 1, columns, columns_lower, now, excluded)

\* [col.lower().strip() for col in df.columns]
LowerColumns(columns) ==
    [i \in 1..Len(columns) |-> str_strip(str_lower(columns[i]))]

\* detect_columns as it would be if the response column could be the
\* requirement column
detect_columns_same_column_allowed(columns) ==
    LET columns_lower == LowerColumns(columns)
    IN  <<FindColumn(requirement_variations, 1, columns, columns_lower, None, None),
          FindColumn(response_variations, 1, columns, columns_lower, None, None)>>

\* indexer.detect_columns(df), df.columns = columns
detect_columns(columns) ==
    LET columns_lower == LowerColumns(columns)
        requirement_col == FindColumn(requirement_variations, 1, columns,
                                      columns_lower, None, None)
        response_col == FindColumn(response_variations, 1, columns, columns_lower,
                                   None, requirement_col)
    IN  <<requirement_col, response_col>>

\* headers a table may have: those of the detection test, a serial-number
\* column, an abbreviation and a padded one
Headers ==
    {"Requirement", "Response", "question", "RFP_Requirements", "Our_Response",
     "Task", "Description", "Extra_Column", "S", " Details "}

\* the header rows: up to MaxColumns different headers
HeaderRows ==
    {c \in UNION {[1..n -> Headers] : n \in 1..MaxColumns} :
        \A i, j \in 1..Len(c) : i # j => c[i] # c[j]}

DetectColumns ==
    /\ call.fn = "detect_columns" /\ ~call.returned
    /\ call' = [call EXCEPT !.returned = TRUE, !.result = detect_columns(call.args)]
    /\ OtherFrame

(***************************************************************************)
(* SpecColumns: the columns of one table are detected.                     *)
(***************************************************************************)
ColumnsInit == FunctionInit("detect_columns", HeaderRows)

SpecColumns == ColumnsInit /\ [][DetectColumns]_vars

Detected == call.fn = "detect_columns" /\ call.returned

\* <<v, i>>: header i of the columns, case ignored, contains candidate v
\* or, with either_way, is contained in it, and is not the excluded column
Candidates(either_way, variations, columns, excluded) ==
    LET lowered == LowerColumns(columns)
    IN  {p \in (1..Len(variations)) \X (1..Len(columns)) :
            /\ \/ In(variations[p[1]], lowered[p[2]])
               \/ either_way /\ In(lowered[p[2]], variations[p[1]])
            /\ Some(columns[p[2]]) # excluded}

\* the header of the first pair, candidates in list order, then headers in
\* column order; None without a pair
FirstOf(pairs, columns) ==
    IF pairs = {} THEN None
    ELSE LET p == CHOOSE q \in pairs :
                    \A r \in pairs : q[1] < r[1] \/ (q[1] = r[1] /\ q[2] <= r[2])
         IN  Some(columns[p[2]])

\* C17 as stated: the requirement column is the first header containing a
\* requirement candidate, the response column the first header containing a
\* response candidate that is not the requirement column, the two are never
\* the same, and a side is None exactly when no header contains a candidate
\* of that side.
C17_FirstContainingHeader ==
    Detected =>
        LET columns == call.args
            requirement_col == call.result[1]
            response_col == call.result[2]
        IN  /\ requirement_col =
                  FirstOf(Candidates(FALSE, requirement_variations, columns, None),
                          columns)
            /\ response_col =
                  FirstOf(Candidates(FALSE, response_variations, columns,
                                     requirement_col), columns)
            /\ requirement_col.some => requirement_col # response_col
            /\ requirement_col = None <=>
                  Candidates(FALSE, requirement_variations, columns, None) = {}
            /\ response_col = None <=>
                  Candidates(FALSE, response_variations, columns, None) = {}

\* C17, amended: a header goes with a candidate when either contains the
\* other (lowered, stripped); the requirement column is the first header
\* going with a requirement candidate, the response column the first header
\* other than the requirement column going with a response candidate; the
\* two are never the same; the requirement side is None exactly when no
\* header goes with a requirement candidate, the response side exactly
\* when no header other than the requirement column goes with a response
\* candidate.
C17_FirstMatchingHeader ==
    Detected =>
        LET columns == call.args
            requirement_col == call.result[1]
            response_col == call.result[2]
        IN  /\ requirement_col =
                  FirstOf(Candidates(TRUE, requirement_variations, columns, None),
                          columns)
            /\ response_col =
                  FirstOf(Candidates(TRUE, response_variations, columns,
                                     requirement_col), columns)
            /\ requirement_col.some => requirement_col # response_col
            /\ requirement_col = None <=>
                  Candidates(TRUE, requirement_variations, columns, None) = {}
            /\ response_col = None <=>
                  Candidates(TRUE, response_variations, columns,
                             requirement_col) = {}

\* "Description" is a candidate of both sides: it has been taken as the
\* requirement column and the response column is another header
C17_Witness ==
    /\ Detected
    /\ call.args = <<"Description", "Extra_Column", " Details ">>
    /\ call.result = <<Some("Description"), Some(" Details ")>>


(***************************************************************************)
(* RFPResponseIndexer: the pairs of a spreadsheet are added to the         *)
(* snapshot at vector_store_path.                                          *)
(***************************************************************************)
MaxRows == 2
MaxIndexed == 5       \* the snapshot is not grown further

\* a spreadsheet: its header row and its rows of two cells
RequirementCells == {"a", "b"}
ResponseCells == {"b", ""}
SheetColumns == {<<"Requirement", "Response">>, <<"Extra_Column", "S">>}
Sheets ==
    [columns : SheetColumns,
     rows : SeqsUpTo(RequirementCells \X ResponseCells, MaxRows)]

\* self.detect_columns(df) for each header row
DetectedColumns == [columns \in SheetColumns |-> detect_columns(columns)]

\* process_rfp_responses(file_path)
process_rfp_responses(sheet) ==
    LET cols == DetectedColumns[sheet.columns]
    IN  IF ~Truthy(cols[1]) \/ ~Truthy(cols[2])
        THEN [success |-> FALSE,
              error |-> "Could not detect requirement and response columns",
              rfp_pairs |-> <<>>]
        ELSE [success |-> TRUE, error |-> "",
              rfp_pairs |-> SelectSeq(sheet.rows, LAMBDA row : row[1] # "" /\ row[2] # "")]

\* create_indexable_documents(rfp_pairs)
create_indexable_documents(rfp_pairs) ==
    [i \in 1..Len(rfp_pairs) |->
        "RFP Response #" \o ToString(i) \o " Requirement: " \o rfp_pairs[i][1]
            \o " Response: " \o rfp_pairs[i][2]]

\* the result of add_to_vector_store and the directory after it
Indexed(ret, dir) == [ret |-> ret, dir |-> dir]
IndexingFailed(exc) ==
    [success |-> FALSE, error |-> "Error adding to vector store: " \o exc,
     documents_added |-> 0, initial_document_count |-> 0, final_document_count |-> 0]

\* add_to_vector_store as it would be if the new store had the dimension
\* of the embeddings
add_to_vector_store_embedding_dimension(dir, documents) ==
    LET embeddings == EmbedAll(documents)
        vector_store_exists == dir.index.kind # "absent"
        loaded == load(dir, 1, 2)
    IN  IF vector_store_exists /\ loaded.raised
        THEN Indexed(IndexingFailed(loaded.exc), dir)
        ELSE LET self == IF vector_store_exists THEN loaded.self
                         ELSE FAISSStore(TestDimension, 1, 2)
                 index == IF vector_store_exists THEN loaded.index
                          ELSE IndexFlatL2(TestDimension)
                 dict == IF vector_store_exists THEN loaded.dict ELSE EmptyDict
                 initial_count == Cardinality(Keys(dict))
                 r == add_texts(self, index, dict, documents, embeddings)
             IN  IF r.raised
                 THEN Indexed(IndexingFailed(r.exc), dir)
                 ELSE Indexed([success |-> TRUE, error |-> "",
                               documents_added |-> Len(documents),
                               initial_document_count |-> initial_count,
                               final_document_count |-> Cardinality(Keys(r.dict))],
                              save_docstore(save_index(dir, r.index), r.dict,
                                            r.self.current_id))

\* add_to_vector_store(documents)
add_to_vector_store(dir, documents) ==
    LET embeddings == EmbedAll(documents)
        vector_store_exists == dir.index.kind # "absent"
        loaded == load(dir, 1, 2)
    IN  IF vector_store_exists /\ loaded.raised
        THEN Indexed(IndexingFailed(loaded.exc), dir)
        ELSE LET self == IF vector_store_exists THEN loaded.self
                         ELSE FAISSStore(DefaultDimension, 1, 2)
                 index == IF vector_store_exists THEN loaded.index
                          ELSE IndexFlatL2(DefaultDimension)
                 dict == IF vector_store_exists THEN loaded.dict ELSE EmptyDict
                 initial_count == Cardinality(Keys(dict))
                 r == add_texts(self, index, dict, documents, embeddings)
             IN  IF r.raised
                 THEN Indexed(IndexingFailed(r.exc), dir)
                 ELSE Indexed([success |-> TRUE, error |-> "",
                               documents_added |-> Len(documents),
                               initial_document_count |-> initial_count,
                               final_document_count |-> Cardinality(Keys(r.dict))],
                              save_docstore(save_index(dir, r.index), r.dict,
                                            r.self.current_id))

\* get_vector_store_info()
get_vector_store_info(dir) ==
    LET loaded == load(dir, 1, 2)
    IN  IF dir.index.kind = "absent"
        THEN [exists |-> FALSE, error |-> "", total_documents |-> 0,
              vector_dimension |-> 0, index_size |-> 0]
        ELSE IF loaded.raised
        THEN [exists |-> FALSE, error |-> "Error reading vector store: " \o loaded.exc,
              total_documents |-> 0, vector_dimension |-> 0, index_size |-> 0]
        ELSE [exists |-> TRUE, error |-> "",
              total_documents |-> Cardinality(Keys(loaded.dict)),
              vector_dimension |-> loaded.self.dimension,
              index_size |-> ntotal(loaded.index)]

IndexerFrame == UNCHANGED <<store, heap, saved, saving, askVars, appVars>>

\* indexer.index_rfp_responses(file_path)
IndexRfpResponses ==
    \E sheet \in Sheets :
        LET processing_result == process_rfp_responses(sheet)
            documents == create_indexable_documents(processing_result.rfp_pairs)
            r == add_to_vector_store(disk, documents)
        IN  /\ IF processing_result.success
               THEN /\ r.dir.index.kind = "file" => r.dir.index.ntotal <= MaxIndexed
                    /\ disk' = r.dir
                    /\ op' = [name |-> "index_rfp_responses",
                              pairs |-> Len(processing_result.rfp_pairs),
                              existed |-> disk.index.kind # "absent",
                              ret |-> r.ret]
               ELSE /\ disk' = disk
                    /\ op' = [name |-> "index_rfp_responses", pairs |-> 0,
                              existed |-> disk.index.kind # "absent",
                              ret |-> [IndexingFailed("") EXCEPT
                                          !.error = processing_result.error]]
            /\ IndexerFrame

\* indexer.get_vector_store_info(); `after` is the result of the call of
\* index_rfp_responses it follows, if it follows one
GetVectorStoreInfo ==
    /\ op' = [name |-> "get_vector_store_info",
              after |-> IF op.name = "index_rfp_responses" THEN op.ret
                        ELSE IndexingFailed(""),
              ret |-> get_vector_store_info(disk)]
    /\ disk' = disk
    /\ IndexerFrame

(***************************************************************************)
(* SpecIndexer: spreadsheets are indexed into a directory that holds no    *)
(* snapshot or the one index_documents left, and the store is inspected.   *)
(***************************************************************************)
IndexerInit == AskInit

\* C18: index_rfp_responses on a file with n >= 1 valid pairs succeeds with
\* and without a snapshot at the store path (without one,
\* initial_document_count = 0); then documents_added = n,
\* final_document_count = initial_document_count + n, and a following
\* get_vector_store_info reports total_documents = index_size =
\* final_document_count.
C18_IndexingSucceeds ==
    /\ (op.name = "index_rfp_responses" /\ op.pairs >= 1) =>
          /\ op.ret.success
          /\ op.ret.documents_added = op.pairs
          /\ op.ret.final_document_count = op.ret.initial_document_count + op.pairs
          /\ ~op.existed => op.ret.initial_document_count = 0
    /\ (op.name = "get_vector_store_info" /\ op.after.success) =>
          /\ op.ret.exists
          /\ op.ret.total_documents = op.after.final_document_count
          /\ op.ret.index_size = op.after.final_document_count


(***************************************************************************)
(* api_server: the session endpoints.  No handler awaits, so each runs to  *)
(* its end before the next request is taken.                               *)
(***************************************************************************)
MaxSessions == 2

SessionIds == 1..MaxSessions      \* the ids uuid4 gives out
FakeId == 0                       \* an id uuid4 never gives out
RequestIds == SessionIds \cup {FakeId}

Filenames == {"rfp.xlsx", "notes.txt"}
allowed_extensions == {".pdf", ".docx", ".xlsx", ".xls"}

\* Path(filename).suffix.lower()
Suffix(filename) ==
    LET dots == {i \in 1..Len(filename) : SubSeq(filename, i, i) = "."}
        last == CHOOSE i \in dots : \A j \in dots : j <= i
    IN  IF dots = {} THEN "" ELSE str_lower(SubSeq(filename, last, Len(filename)))

\* temp_dir / f"{session_id}_{file.filename}"
TempPath(session_id, filename) == <<session_id, filename>>

\* dict operations
Put(table, key, value) ==
    [k \in DOMAIN table \cup {key} |-> IF k = key THEN value ELSE table[k]]
Remove(table, key) == [k \in DOMAIN table \ {key} |-> table[k]]

\* the requirement lists an extraction or a request body holds
ExtractedLists == {<<>>, <<"a">>}

\* sessions[session_id] after upload: 'responses' is not set yet; timestamp
\* is the reading of the clock at the upload
NewSession(requirements, filename, timestamp) ==
    [requirements |-> requirements, uploaded_file |-> filename,
     file_type |-> Suffix(filename), timestamp |-> timestamp,
     has_responses |-> FALSE, responses |-> <<>>]

NoData == <<>>

Reply(endpoint, session_id, status) ==
    [endpoint |-> endpoint, session_id |-> session_id, status |-> status,
     data |-> NoData]

\* the tables and files a handler leaves, with its status: an HTTPException
Handled(status, s, t, files) ==
    [status |-> status, data |-> NoData,
     sessions |-> s, temp_files |-> t, temp_uploads |-> files]

\* the same for a handler that returns APIResponse(success=True, data=data)
Returned(data, s, t, files) ==
    [status |-> 200, data |-> data,
     sessions |-> s, temp_files |-> t, temp_uploads |-> files]

\* get_requirements(session_id)
get_requirements(s, t, files, session_id) ==
    IF session_id \notin DOMAIN s THEN Handled(404, s, t, files)
    ELSE LET session_data == s[session_id]
         IN  Returned([requirements |-> session_data.requirements,
                       filename |-> session_data.uploaded_file,
                       file_type |-> session_data.file_type,
                       upload_time |-> session_data.timestamp,
                       total_requirements |-> Len(session_data.requirements)],
                      s, t, files)

\* [r for r in responses if r['status'] == 'success']
Successful(responses) == SelectSeq(responses, LAMBDA r : r.status = "success")

\* get_responses(session_id)
get_responses(s, t, files, session_id) ==
    IF session_id \notin DOMAIN s THEN Handled(404, s, t, files)
    ELSE IF ~s[session_id].has_responses THEN Handled(404, s, t, files)
    ELSE LET session_data == s[session_id]
             responses == session_data.responses
         IN  Returned([responses |-> responses,
                       total_requirements |-> Len(session_data.requirements),
                       total_responses |-> Len(responses),
                       successful_responses |-> Len(Successful(responses))],
                      s, t, files)

\* what rag_pipeline.ask did for one requirement: it returned a result with
\* an answer, or it raised
AskReturned(answer) == [raised |-> FALSE, answer |-> answer, exc |-> ""]
AskRaised(exc) == [raised |-> TRUE, answer |-> <<>>, exc |-> exc]
AskOutcomes ==
    {AskReturned(<<"We", "provide", "it">>), AskReturned(ErrorConnecting("ConnectionError")),
     AskRaised("RuntimeError")}

\* the item generate_responses appends for requirement i
ResponseItem(i, requirement, outcome) ==
    IF outcome.raised
    THEN [requirement_index |-> i - 1, requirement |-> requirement,
          answer |-> <<>>, error |-> outcome.exc, status |-> "error"]
    ELSE [requirement_index |-> i - 1, requirement |-> requirement,
          answer |-> outcome.answer, error |-> "", status |-> "success"]

\* generate_responses as it would be without `except HTTPException: raise`
generate_responses_without_reraise(s, t, files, session_id, requirements, outcomes, vector_store_exists) ==
    IF session_id \notin DOMAIN s THEN Handled(500, s, t, files)
    ELSE IF ~vector_store_exists THEN Handled(500, s, t, files)
    ELSE LET responses == [i \in 1..Len(requirements) |->
                             ResponseItem(i, requirements[i], outcomes[i])]
             s2 == [s EXCEPT ![session_id].has_responses = TRUE,
                             ![session_id].responses = responses]
         IN  IF Len(requirements) = 0
             THEN Handled(500, s2, t, files)
             ELSE Returned([responses |-> responses,
                            total_requirements |-> Len(requirements),
                            successful_responses |-> Len(Successful(responses)),
                            failed_responses |->
                                Len(responses) - Len(Successful(responses))],
                           s2, t, files)

\* generate_responses as it would be if it stored the request's requirements
\* in the session
generate_responses_storing_requirements(s, t, files, session_id, requirements, outcomes, vector_store_exists) ==
    IF session_id \notin DOMAIN s THEN Handled(404, s, t, files)
    ELSE IF ~vector_store_exists THEN Handled(404, s, t, files)
    ELSE LET responses == [i \in 1..Len(requirements) |->
                             ResponseItem(i, requirements[i], outcomes[i])]
             s2 == [s EXCEPT ![session_id].has_responses = TRUE,
                             ![session_id].requirements = requirements,
                             ![session_id].responses = responses]
         IN  IF Len(requirements) = 0
             THEN Handled(500, s2, t, files)
             ELSE Returned([responses |-> responses,
                            total_requirements |-> Len(requirements),
                            successful_responses |-> Len(Successful(responses)),
                            failed_responses |->
                                Len(responses) - Len(Successful(responses))],
                           s2, t, files)

\* generate_responses(request); outcomes[i] is what rag_pipeline.ask did for
\* requirement i
generate_responses(s, t, files, session_id, requirements, outcomes, vector_store_exists) ==
    IF session_id \notin DOMAIN s THEN Handled(404, s, t, files)
    ELSE IF ~vector_store_exists THEN Handled(404, s, t, files)
    ELSE LET responses == [i \in 1..Len(requirements) |->
                             ResponseItem(i, requirements[i], outcomes[i])]
             s2 == [s EXCEPT ![session_id].has_responses = TRUE,
                             ![session_id].responses = responses]
         IN  IF Len(requirements) = 0      \* success_rate divides by zero
             THEN Handled(500, s2, t, files)
             ELSE Returned([responses |-> responses,
                            total_requirements |-> Len(requirements),
                            successful_responses |-> Len(Successful(responses)),
                            failed_responses |->
                                Len(responses) - Len(Successful(responses))],
                           s2, t, files)

\* cleanup_session as it would be without temp_file_path.unlink()
cleanup_session_without_unlink(s, t, files, session_id) ==
    IF session_id \notin DOMAIN s THEN Handled(404, s, t, files)
    ELSE Handled(200, Remove(s, session_id),
                 IF session_id \in DOMAIN t THEN Remove(t, session_id) ELSE t,
                 files)

\* cleanup_session(session_id)
cleanup_session(s, t, files, session_id) ==
    IF session_id \notin DOMAIN s THEN Handled(404, s, t, files)
    ELSE Handled(200, Remove(s, session_id),
                 IF session_id \in DOMAIN t THEN Remove(t, session_id) ELSE t,
                 IF session_id \in DOMAIN t THEN files \ {t[session_id]} ELSE files)

ApiFrame == UNCHANGED <<storeVars, askVars, batch, call, runs>>

\* the handler's result becomes the state and the answer
Answer(endpoint, session_id, r) ==
    /\ sessions' = r.sessions
    /\ temp_files' = r.temp_files
    /\ temp_uploads' = r.temp_uploads
    /\ http' = [Reply(endpoint, session_id, r.status) EXCEPT !.data = r.data]

\* upload_rfp_document as it would be if the except clause removed the file
\* and left the entry of temp_files in place
UploadRfp_keeping_temp_entry ==
    \E filename \in Filenames : \E requirements \in ExtractedLists :
      \E extracted \in BOOLEAN :
        IF Suffix(filename) \notin allowed_extensions
        THEN /\ http' = Reply("upload_rfp_document", FakeId, 400)
             /\ UNCHANGED <<sessions, temp_files, temp_uploads, issued, deleted>>
             /\ ApiFrame
        ELSE \E session_id \in SessionIds \ issued :
                /\ issued' = issued \cup {session_id}
                /\ IF extracted
                   THEN /\ temp_uploads' = temp_uploads
                                             \cup {TempPath(session_id, filename)}
                        /\ temp_files' = Put(temp_files, session_id,
                                             TempPath(session_id, filename))
                        /\ sessions' = Put(sessions, session_id,
                                           NewSession(requirements, filename,
                                                      Cardinality(issued)))
                        /\ http' = Reply("upload_rfp_document", session_id, 200)
                   ELSE /\ temp_uploads' = temp_uploads
                        /\ temp_files' = Put(temp_files, session_id,
                                             TempPath(session_id, filename))
                        /\ UNCHANGED sessions
                        /\ http' = Reply("upload_rfp_document", session_id, 500)
                /\ UNCHANGED deleted
                /\ ApiFrame

\* POST /api/upload-rfp: the file is refused, or stored and extracted, or
\* an exception undoes what was stored
UploadRfp ==
    \E filename \in Filenames : \E requirements \in ExtractedLists :
      \E extracted \in BOOLEAN :
        IF Suffix(filename) \notin allowed_extensions
        THEN /\ http' = Reply("upload_rfp_document", FakeId, 400)
             /\ UNCHANGED <<sessions, temp_files, temp_uploads, issued, deleted>>
             /\ ApiFrame
        ELSE \E session_id \in SessionIds \ issued :
                /\ issued' = issued \cup {session_id}
                /\ IF extracted
                   THEN /\ temp_uploads' = temp_uploads
                                             \cup {TempPath(session_id, filename)}
                        /\ temp_files' = Put(temp_files, session_id,
                                             TempPath(session_id, filename))
                        /\ sessions' = Put(sessions, session_id,
                                           NewSession(requirements, filename,
                                                      Cardinality(issued)))
                        /\ http' = Reply("upload_rfp_document", session_id, 200)
                   ELSE LET stored == Put(temp_files, session_id,
                                          TempPath(session_id, filename))
                        IN  /\ temp_uploads' = temp_uploads
                                                  \ {TempPath(session_id, filename)}
                            /\ temp_files' = Remove(stored, session_id)
                            /\ sessions' = IF session_id \in DOMAIN sessions
                                           THEN Remove(sessions, session_id)
                                           ELSE sessions
                            /\ http' = Reply("upload_rfp_document", session_id, 500)
                /\ UNCHANGED deleted
                /\ ApiFrame

\* GET /api/requirements/{session_id}
GetRequirements ==
    \E session_id \in RequestIds :
        /\ Answer("get_requirements", session_id,
                  get_requirements(sessions, temp_files, temp_uploads, session_id))
        /\ UNCHANGED <<issued, deleted>>
        /\ ApiFrame

\* GET /api/responses/{session_id}
GetResponses ==
    \E session_id \in RequestIds :
        /\ Answer("get_responses", session_id,
                  get_responses(sessions, temp_files, temp_uploads, session_id))
        /\ UNCHANGED <<issued, deleted>>
        /\ ApiFrame

\* POST /api/generate-responses
GenerateResponses ==
    \E session_id \in RequestIds : \E requirements \in ExtractedLists :
      \E outcomes \in [1..Len(requirements) -> AskOutcomes] :
        /\ Answer("generate_responses", session_id,
                  generate_responses(sessions, temp_files, temp_uploads, session_id,
                                     requirements, outcomes,
                                     disk.index.kind # "absent"))
        /\ UNCHANGED <<issued, deleted>>
        /\ ApiFrame

\* DELETE /api/session/{session_id}
CleanupSession ==
    \E session_id \in RequestIds :
        LET r == cleanup_session(sessions, temp_files, temp_uploads, session_id)
        IN  /\ Answer("cleanup_session", session_id, r)
            /\ deleted' = IF r.status = 200 THEN deleted \cup {session_id} ELSE deleted
            /\ UNCHANGED issued
            /\ ApiFrame

\* what the try block of direct_query does, lines 299-331: the missing
\* snapshot raises HTTPException(404) inside the try block, otherwise the
\* question is asked
direct_query_try(vector_store_exists, outcome) ==
    IF ~vector_store_exists
    THEN AskRaised("HTTPException")
    ELSE outcome

\* direct_query, lines 293-334: `except Exception` is the only handler, and
\* it answers 500 for every exception of the try block, HTTPException included
direct_query(s, t, files, vector_store_exists, outcome) ==
    LET r == direct_query_try(vector_store_exists, outcome)
    IN  IF r.raised
        THEN Handled(500, s, t, files)
        ELSE Returned([answer |-> r.answer], s, t, files)

\* POST /api/query
DirectQuery ==
    \E outcome \in AskOutcomes :
        /\ Answer("direct_query", FakeId,
                  direct_query(sessions, temp_files, temp_uploads,
                               disk.index.kind # "absent", outcome))
        /\ UNCHANGED <<issued, deleted>>
        /\ ApiFrame

\* temp_uploads/index_<uuid>_<filename>
IndexTempPath(upload_id, filename) == <<upload_id, "index_" \o filename>>

\* POST /api/index-responses, api_server.py lines 446-515: the file is
\* refused, or copied to temp_uploads and indexed. The file is unlinked
\* after a successful indexing and in `except Exception`; the
\* HTTPException(400) of a failed indexing is re-raised by
\* `except HTTPException: raise`, which unlinks nothing.
IndexResponses ==
    \E filename \in Filenames : \E sheet \in Sheets : \E copied \in BOOLEAN :
        IF Suffix(filename) \notin {".xlsx", ".xls"}
        THEN /\ http' = Reply("index_rfp_responses", FakeId, 400)
             /\ UNCHANGED <<disk, op, sessions, temp_files, temp_uploads, issued, deleted>>
             /\ UNCHANGED <<store, heap, saved, saving, askVars, batch, call, runs>>
        ELSE \E upload_id \in SessionIds \ issued :
            LET temp_file_path == IndexTempPath(upload_id, filename)
                processing_result == process_rfp_responses(sheet)
                documents == create_indexable_documents(processing_result.rfp_pairs)
                r == add_to_vector_store(disk, documents)
                result == IF processing_result.success THEN r.ret
                          ELSE [IndexingFailed("") EXCEPT !.error = processing_result.error]
            IN  /\ issued' = issued \cup {upload_id}
                /\ IF ~copied                    \* open or copyfileobj raised
                   THEN /\ temp_uploads' = temp_uploads \ {temp_file_path}
                        /\ http' = Reply("index_rfp_responses", upload_id, 500)
                        /\ UNCHANGED <<disk, op>>
                   ELSE /\ processing_result.success =>
                              (r.dir.index.kind = "file" => r.dir.index.ntotal <= MaxIndexed)
                        /\ disk' = IF processing_result.success THEN r.dir ELSE disk
                        /\ op' = [name |-> "index_rfp_responses",
                                  pairs |-> Len(processing_result.rfp_pairs),
                                  existed |-> disk.index.kind # "absent",
                                  ret |-> result]
                        /\ IF result.success
                           THEN /\ temp_uploads' = (temp_uploads \cup {temp_file_path})
                                                     \ {temp_file_path}
                                /\ http' = Reply("index_rfp_responses", upload_id, 200)
                           ELSE /\ temp_uploads' = temp_uploads \cup {temp_file_path}
                                /\ http' = Reply("index_rfp_responses", upload_id, 400)
                /\ UNCHANGED <<sessions, temp_files, deleted>>
                /\ UNCHANGED <<store, heap, saved, saving, askVars, batch, call, runs>>

\* SpecIndexer: the indexer is called directly and through the endpoint
IndexerNext == IndexRfpResponses \/ GetVectorStoreInfo \/ IndexResponses

SpecIndexer == IndexerInit /\ [][IndexerNext]_vars

(***************************************************************************)
(* Several processes call add_to_vector_store on the same directory (the   *)
(* API server, its workers, the command-line indexer).  Each call is four  *)
(* accesses to its own store object and the shared directory: load, add,   *)
(* and the two writes of save.  Nothing in the code locks the directory.   *)
(***************************************************************************)
\* the documents of a run
RunDocuments == {<<>>, <<"a">>, <<"b", "a">>}

\* the number of documents in the snapshot's docstore.pkl
SnapshotCount(dir) ==
    IF dir.docstore.kind = "file" THEN Len(dir.docstore.document_map) ELSE 0

RunFailed(run, exc) == [run EXCEPT !.pc = "failed", !.error = exc]

Logged(event, p) == Append(runs.log, <<event, p>>)

WriterFrame == UNCHANGED <<store, heap, saved, saving, op, askVars, batch, call, apiVars>>

\* add_to_vector_store as it would be if it always started from a new store
RunLoad_always_new(p) ==
    \E documents \in RunDocuments :
        /\ runs.run[p].pc = "idle"
        /\ runs' = [run |-> [runs.run EXCEPT ![p] =
                       [pc |-> "loaded", documents |-> documents, error |-> "",
                        self |-> FAISSStore(DefaultDimension, 1, 2),
                        index |-> IndexFlatL2(DefaultDimension),
                        dict |-> EmptyDict, initial_count |-> 0]],
                    log |-> Logged("load", p)]
        /\ UNCHANGED disk
        /\ WriterFrame

\* lines 183-195: the embeddings, then the snapshot is loaded if index.faiss
\* exists, else a new store is made
RunLoad(p) ==
    \E documents \in RunDocuments :
        /\ runs.run[p].pc = "idle"
        /\ LET vector_store_exists == disk.index.kind # "absent"
               loaded == load(disk, 1, 2)
               run == [pc |-> "loaded", documents |-> documents, error |-> "",
                       self |-> FAISSStore(DefaultDimension, 1, 2),
                       index |-> IndexFlatL2(DefaultDimension),
                       dict |-> EmptyDict, initial_count |-> 0]
           IN  runs' = [run |-> [runs.run EXCEPT ![p] =
                           IF ~vector_store_exists THEN run
                           ELSE IF loaded.raised THEN RunFailed(run, loaded.exc)
                           ELSE [run EXCEPT !.self = loaded.self,
                                            !.index = loaded.index,
                                            !.dict = loaded.dict,
                                            !.initial_count =
                                                Cardinality(Keys(loaded.dict))]],
                        log |-> Logged("load", p)]
        /\ UNCHANGED disk
        /\ WriterFrame

\* line 198: doc_ids = store.add_texts(documents, embeddings)
RunAdd(p) ==
    /\ runs.run[p].pc = "loaded"
    /\ LET run == runs.run[p]
           r == add_texts(run.self, run.index, run.dict, run.documents,
                          EmbedAll(run.documents))
       IN  runs' = [runs EXCEPT !.run[p] =
                       IF r.raised THEN RunFailed(run, r.exc)
                       ELSE [run EXCEPT !.pc = "added", !.self = r.self,
                                        !.index = r.index, !.dict = r.dict]]
    /\ UNCHANGED disk
    /\ WriterFrame

\* line 201, vector_store.py line 69: faiss.write_index
RunSaveIndex(p) ==
    /\ runs.run[p].pc = "added"
    /\ disk' = save_index(disk, runs.run[p].index)
    /\ runs' = [run |-> [runs.run EXCEPT ![p].pc = "saving"],
                log |-> Logged("save", p)]
    /\ WriterFrame

\* vector_store.py lines 72-79: pickle.dump, after which the call returns
RunSaveDocstore(p) ==
    /\ runs.run[p].pc = "saving"
    /\ disk' = save_docstore(disk, runs.run[p].dict, runs.run[p].self.current_id)
    /\ runs' = [run |-> [runs.run EXCEPT ![p].pc = "done"],
                log |-> Logged("saved", p)]
    /\ WriterFrame

(***************************************************************************)
(* SpecWriters: each writer process makes one call, in any interleaving,   *)
(* on a directory without snapshot or with the one index_documents left.   *)
(***************************************************************************)
WritersInit == AskInit

WritersNext ==
    \E p \in Writers :
        \/ RunLoad(p)
        \/ RunAdd(p)
        \/ RunSaveIndex(p)
        \/ RunSaveDocstore(p)

SpecWriters == WritersInit /\ [][WritersNext]_vars

(***************************************************************************)
(* SpecApi: uploads and session requests in any order, with and without a  *)
(* vector store in test_store.                                             *)
(***************************************************************************)
ApiServerInit == AskInit

ApiNext ==
    \/ UploadRfp
    \/ GetRequirements
    \/ GetResponses
    \/ GenerateResponses
    \/ CleanupSession
    \/ DirectQuery

SpecApi == ApiServerInit /\ [][ApiNext]_vars

SessionEndpoints ==
    {"get_requirements", "generate_responses", "get_responses", "cleanup_session"}

\* the step answers a request of one of the four endpoints for an id that
\* is not in the session table
UnknownSessionRequest ==
    /\ http'.endpoint \in SessionEndpoints
    /\ http'.session_id \notin DOMAIN sessions

\* C19: a request of GET requirements, POST generate-responses, GET
\* responses or DELETE session for an id that is not in the session table
\* is answered 404 and leaves the session table, the temp-file table and
\* the files unchanged, with and without a vector store.
C19_UnknownSessionIs404 ==
    [][UnknownSessionRequest =>
          /\ http'.status = 404
          /\ UNCHANGED <<sessions, temp_files, temp_uploads>>]_vars

\* generate-responses for an id that was never given out has been answered
\* 404 while the vector store and another session exist
C19_Witness ==
    /\ http = Reply("generate_responses", FakeId, 404)
    /\ disk.index.kind = "file"
    /\ DOMAIN sessions # {}

\* nothing of a deleted session is left
DeletedIsGone ==
    \A session_id \in deleted :
        /\ session_id \notin DOMAIN sessions
        /\ session_id \notin DOMAIN temp_files
        /\ \A path \in temp_uploads : path[1] # session_id

\* C20: once DELETE has succeeded for an id, the uploaded temp file no
\* longer exists and every later get_requirements, get_responses,
\* generate_responses and delete for that id is answered 404.
C20_DeletedStaysDeleted ==
    /\ []DeletedIsGone
    /\ [][(http'.endpoint \in SessionEndpoints /\ http'.session_id \in deleted)
              => http'.status = 404]_vars

\* a session was deleted, another upload followed, and generate-responses
\* for the deleted id has been answered 404 with the vector store present
C20_Witness ==
    /\ http.endpoint = "generate_responses"
    /\ http.session_id \in deleted
    /\ http.status = 404
    /\ disk.index.kind = "file"
    /\ DOMAIN sessions # {}


\* what a session was uploaded with
Uploaded(session_data) ==
    [requirements |-> session_data.requirements,
     filename |-> session_data.uploaded_file,
     file_type |-> session_data.file_type,
     upload_time |-> session_data.timestamp,
     total_requirements |-> Len(session_data.requirements)]

\* C21: while a session exists its requirements, filename, file type and
\* upload timestamp do not change, whatever request is answered, and every
\* GET /api/requirements/{id} answered 200 returns exactly them.
C21_UploadDataFixed ==
    [][/\ \A session_id \in DOMAIN sessions \cap DOMAIN sessions' :
             Uploaded(sessions'[session_id]) = Uploaded(sessions[session_id])
       /\ (http'.endpoint = "get_requirements" /\ http'.status = 200) =>
             http'.data = Uploaded(sessions[http'.session_id])]_vars

\* the requirements of a session that has responses for a different number
\* of requirements have been read while a second session exists
C21_Witness ==
    /\ http.endpoint = "get_requirements" /\ http.status = 200
    /\ http.session_id \in DOMAIN sessions
    /\ sessions[http.session_id].has_responses
    /\ Len(sessions[http.session_id].responses) # http.data.total_requirements
    /\ Cardinality(DOMAIN sessions) = 2


\* the embedding capability raised in the ask() in progress or just ended
EmbedRaised == ask.kind = "ask" /\ ask.exc = "EmbeddingError"

\* C22: when embed raises during ask(), ask() raises: it returns no result,
\* and no search, prompt, generation call, post-processing or scoring is
\* made for that query; the call does nothing more until the next ask().
C22_EmbedFailureIsFatal ==
    /\ [](EmbedRaised =>
             /\ pc = "Raised"
             /\ ~ask.returned
             /\ stages = <<"Embedding">>
             /\ ask.context = <<>> /\ ask.prompt = <<>>
             /\ ask.reply = "" /\ ask.answer = <<>>
             /\ ask.quality = NoScore)
    /\ [][EmbedRaised => (pc' = "Embedding" /\ ask'.exc = "")]_vars

\* embed has raised in an ask() with scoring enabled, the store being loaded
C22_Witness ==
    /\ EmbedRaised
    /\ pc = "Raised"
    /\ 2 \in Live
    /\ ask.include_quality_score


\* C23: POST /api/query answers 404 whenever index.faiss does not exist in
\* test_store, and 500 only for a failure other than the missing snapshot.
C23_MissingStoreIs404 ==
    [][http'.endpoint = "direct_query" =>
          /\ disk.index.kind = "absent" => http'.status = 404
          /\ http'.status = 500 => disk.index.kind # "absent"]_vars


\* the three completeness bonuses of a call: length at least half of the
\* requirement's, length at least the requirement's, questions answered
CompletenessBonuses(requirement, response) ==
    (IF 2 * response.words >= requirement.words THEN 15 ELSE 0)
    + (IF response.words >= requirement.words THEN 10 ELSE 0)
    + (IF requirement.questions = 0 \/ response.answers >= requirement.questions
       THEN 15 ELSE 0)

\* C24 as stated: completeness is base + bonuses capped at 100, base 60 for
\* a response of at least 50 characters and 30 otherwise, the bonuses being
\* added for every response, short ones included.
C24_BonusesForEveryResponse ==
    (Scored /\ call.args.response.chars > 0) =>
        LET base == IF call.args.response.chars >= 50 THEN 60 ELSE 30
            bonuses == CompletenessBonuses(call.args.requirement, call.args.response)
        IN  call.result.completeness = 10 * MinOf(base + bonuses, 100)

\* C24, amended: a non-empty response of fewer than 50 characters (stripped)
\* has completeness exactly 30, without any bonus; a response of at least 50
\* characters has 60 plus the bonuses, capped at 100.
C24_ShortResponsesGetThirty ==
    (Scored /\ call.args.response.chars > 0) =>
        LET bonuses == CompletenessBonuses(call.args.requirement, call.args.response)
        IN  call.result.completeness =
                IF call.args.response.chars < 50
                THEN 300
                ELSE 10 * MinOf(60 + bonuses, 100)

\* a response of 40 characters and 10 words has been scored against a
\* requirement of 7 words without question: every bonus condition holds
C24_Witness ==
    /\ Scored
    /\ call.args.response.chars = 40 /\ call.args.response.words = 10
    /\ call.args.requirement.words = 7 /\ call.args.requirement.questions = 0
    /\ call.result.completeness = 300


\* the messages of a feedback list
Messages(feedback) == {feedback[i] : i \in 1..Len(feedback)}

ImprovementMessages ==
    {"Response seems incomplete. Consider providing more detailed information.",
     "Response could be clearer. Try using bullet points or numbered lists.",
     "Consider using more professional business language.",
     "Response doesn't fully address the requirement. Include more specific details."}

PraiseMessages ==
    {"Excellent response! Ready for submission.",
     "Good response with minor room for improvement."}

\* C30: for every response scored, the feedback is never the default
\* ["Response meets basic quality standards."]: a non-empty response with a
\* sub-score below 70 carries an improvement message, one whose four
\* sub-scores are all at least 70 carries a positive message, and an empty
\* response carries the message of the early return.
C30_DefaultFeedbackNeverReturned ==
    Scored =>
        LET feedback == call.result.feedback
            c == score_completeness(call.args.requirement, call.args.response)
            cl == score_clarity(call.args.response)
            p == score_professionalism(call.args.response)
            r == score_relevance(call.args.requirement, call.args.response)
            low == c < 70 \/ cl < 70 \/ p < 70 \/ Below(r, 70)
        IN  /\ feedback # <<>>
            /\ "Response meets basic quality standards." \notin Messages(feedback)
            /\ (call.args.response.len > 0 /\ call.args.response.chars > 0) =>
                  /\ low => Messages(feedback) \cap ImprovementMessages # {}
                  /\ ~low => Messages(feedback) \cap PraiseMessages # {}

\* a response of at least 30 words whose four sub-scores are all at least 70
\* and not all at least 80 has been scored: only the positive message stands
\* between it and the default
C30_Witness ==
    /\ Scored
    /\ call.args.response.words >= 30
    /\ call.result.feedback = <<"Good response with minor room for improvement.">>


\* the step answers a generate_responses request for the session with 200
GenerateCompleted(session_id) ==
    /\ http'.endpoint = "generate_responses"
    /\ http'.session_id = session_id
    /\ http'.status = 200

\* C25: GET /api/responses/{id} answers 404 for an existing session as long
\* as no generate_responses request has completed for it, and afterwards
\* returns exactly the responses of the most recent completed request
\* (replaced, not appended), total_responses being the number of
\* requirements of that request. Step by step: a new session has no
\* responses; a completed generate_responses request replaces them by its
\* own, one per requirement; no other step changes them; get_responses
\* answers from them.
C25_ResponsesOfLastCompleted ==
    [][/\ \A session_id \in DOMAIN sessions' \ DOMAIN sessions :
             ~sessions'[session_id].has_responses
       /\ \A session_id \in DOMAIN sessions \cap DOMAIN sessions' :
             IF GenerateCompleted(session_id)
             THEN /\ sessions'[session_id].has_responses
                  /\ sessions'[session_id].responses = http'.data.responses
                  /\ Len(http'.data.responses) = http'.data.total_requirements
             ELSE /\ sessions'[session_id].has_responses
                        = sessions[session_id].has_responses
                  /\ sessions'[session_id].responses = sessions[session_id].responses
       /\ (http'.endpoint = "get_responses" /\ http'.session_id \in DOMAIN sessions) =>
             IF sessions[http'.session_id].has_responses
             THEN /\ http'.status = 200
                  /\ http'.data.responses = sessions[http'.session_id].responses
                  /\ http'.data.total_responses
                        = Len(sessions[http'.session_id].responses)
             ELSE http'.status = 404]_vars


\* C27: after every completed request (an upload that succeeded or failed,
\* generate_responses, a deletion, a read) the ids of the session table are
\* the ids of the temp-file table.
C27_SessionsMatchTempFiles == DOMAIN sessions = DOMAIN temp_files

\* an upload has just failed while the session of an earlier upload exists
C27_Witness ==
    /\ http.endpoint = "upload_rfp_document"
    /\ http.status = 500
    /\ http.session_id \notin DOMAIN sessions
    /\ DOMAIN sessions # {}


\* C28: in batch processing an item is tagged "error" exactly when ask()
\* raised for it; an item whose backend call failed, ask() having returned
\* the "Error connecting to ..." answer, is tagged "success" and carries
\* that error string as its response.
C28_ErrorTagOnlyWhenAskRaised ==
    [][(BatchActive /\ Len(batch'.results) = Len(batch.results) + 1) =>
          LET item == batch'.results[Len(batch'.results)]
          IN  /\ item.status \in {"success", "error"}
              /\ item.status = "error" <=> pc = "Raised"
              /\ (pc = "Done" /\ ask.reply \in BackendFailures) =>
                    /\ item.status = "success"
                    /\ item.response = ask.answer
                    /\ StartsWith(item.response, ErrorPrefix)]_vars

\* a batch has returned two items: the first tagged "error" after ask()
\* raised, the second tagged "success" with an "Error connecting to" response
C28_Witness ==
    /\ batch.kind = "batch" /\ batch.returned
    /\ Len(batch.results) = 2
    /\ batch.results[1].status = "error"
    /\ batch.results[2].status = "success"
    /\ StartsWith(batch.results[2].response, ErrorPrefix)

\* C28 for POST /api/generate-responses: an item is tagged "error" exactly
\* when it carries the exception ask() raised; an item whose answer is the
\* "Error connecting to ..." string is tagged "success" and is counted in
\* successful_responses.
C28_ApiErrorTagOnlyWhenAskRaised ==
    [][(http'.endpoint = "generate_responses" /\ http'.status = 200) =>
          LET responses == http'.data.responses
              items == {responses[i] : i \in 1..Len(responses)}
          IN  /\ \A item \in items :
                    /\ item.status \in {"success", "error"}
                    /\ item.status = "error" <=> item.error # ""
                    /\ StartsWith(item.answer, ErrorPrefix) => item.status = "success"
              /\ http'.data.successful_responses
                    = Len(SelectSeq(responses, LAMBDA r : r.error = ""))
              /\ http'.data.failed_responses
                    = Len(responses) - http'.data.successful_responses]_vars


\* the files POST /api/index-responses has left in temp_uploads
IndexUploadsLeft ==
    {f \in temp_uploads : \E upload_id \in SessionIds : \E filename \in Filenames :
                              f = IndexTempPath(upload_id, filename)}

\* C29: every POST /api/index-responses request that created a temp upload
\* file has removed it by the time it completes, whatever the outcome: 200,
\* 400 (indexing reported success False) or 500.
C29_IndexUploadRemoved ==
    http.endpoint = "index_rfp_responses" => IndexUploadsLeft = {}


\* the positions of the events of a kind, and of a writer, in the log
EventsOf(kinds) == {i \in 1..Len(runs.log) : runs.log[i][1] \in kinds}
EventsBy(p) == {i \in 1..Len(runs.log) : runs.log[i][2] = p}

\* no run is between its load and the end of its save
Quiescent == \A p \in Writers : runs.run[p].pc \in {"idle", "done", "failed"}

\* the runs were executed one at a time: no event of another writer lies
\* between two events of a writer
OneAtATime ==
    \A p \in Writers : \A i, j \in EventsBy(p) :
        \A k \in 1..Len(runs.log) : (i < k /\ k < j) => k \in EventsBy(p)

\* every load came before every write of a save
LoadsBeforeSaves ==
    \A i \in EventsOf({"load"}) : \A j \in EventsOf({"save", "saved"}) : i < j

Completed == {p \in Writers : runs.run[p].pc = "done"}

RECURSIVE DocumentsAdded(_)
DocumentsAdded(ps) ==
    IF ps = {} THEN 0
    ELSE LET p == CHOOSE q \in ps : TRUE
         IN  Len(runs.run[p].documents) + DocumentsAdded(ps \ {p})

\* the number of documents of the snapshot before the first run: what the
\* first load found
InitialCount ==
    IF runs.log = <<>> THEN SnapshotCount(disk)
    ELSE runs.run[runs.log[1][2]].initial_count

\* the writer whose save ended last
LastSaved == runs.log[CHOOSE i \in EventsOf({"saved"}) :
                          \A j \in EventsOf({"saved"}) : j <= i][2]

\* C26: nothing serializes the writers. When the runs (load, add, save) are
\* executed one at a time, the snapshot after them holds the documents it
\* had plus those added by every run that succeeded. When all runs
\* succeeded and every load came before every save, the snapshot holds only
\* the documents of the run whose save ended last: those of the run that
\* saved first are lost.
C26_WritersNotSerialized ==
    /\ (Quiescent /\ OneAtATime) =>
          /\ SnapshotCount(disk) = InitialCount + DocumentsAdded(Completed)
          /\ disk.index.kind = "file" => disk.index.ntotal = SnapshotCount(disk)
    /\ (Completed = Writers /\ LoadsBeforeSaves) =>
          SnapshotCount(disk) = InitialCount + Len(runs.run[LastSaved].documents)

\* both runs loaded before either saved and both saved; the snapshot lacks
\* the documents of the run that saved first
C26_Witness ==
    /\ Completed = Writers
    /\ LoadsBeforeSaves
    /\ \E p \in Writers :
          /\ p # LastSaved
          /\ runs.run[p].documents # <<>>
          /\ SnapshotCount(disk) < InitialCount + DocumentsAdded(Writers)
          /\ \A i \in EventsBy(p) : \A j \in EventsBy(LastSaved) :
                runs.log[i][1] = "saved" /\ runs.log[j][1] = "saved" => i < j

============================================================================
